---- MODULE Spec2Model ----
(***************************************************************************)
(* Verification model of the massa-node core: the shared, reference-       *)
(* counted object store (massa-storage).                                   *)
(*                                                                         *)
(* Spec       every Storage method is one atomic step (a completed call)   *)
(* SpecLocks  store_block and drop_block_refs of concurrent holders, one   *)
(*            step per lock acquisition                                    *)
(***************************************************************************)
EXTENDS Integers, Sequences, FiniteSets, TLC

\* ------------------------------------------------------------------ bounds
\* Number of Storage handles that can be alive at the same time.
MaxHolders == 2
\* Number of distinct object ids, dealt round-robin to the three kinds.
MaxObjects == 3
\* Number of creator addresses.
MaxAddrs == 2
\* Longest vector handed to store_operations / store_endorsements.
MaxVec == 2
\* Number of endorsement ids offered to the endorsement index on its own.
MaxIndexIds == 5
\* Number of call ids in the changes of a slot handed to the registry codec.
MaxCalls == 1
\* Number of commands sent to the graph worker.
MaxCommands == 2
\* Last period the host clock of the graph worker reaches, and last period
\* the worker ticks in.
MaxPeriod == 2
\* Last period of the previous slots and of the clock readings handed to
\* get_next_slot on its own.
MaxInputPeriod == 11
\* Most keys in the STATE_CF column family of a database.
MaxDbKeys == 2
\* Most calls made on a mock execution controller.
MaxMockCalls == 2
\* Most writes made on a DeferredCallRegistryChanges.
MaxWrites == 2

Holders == 1..MaxHolders
Objects == 1..MaxObjects
Addrs == 1..MaxAddrs

\* BlockId, OperationId and EndorsementId are distinct types: the ids of the
\* three kinds are disjoint.
BlockIds == {o \in Objects : o % 3 = 1}
OperationIds == {o \in Objects : o % 3 = 2}
EndorsementIds == {o \in Objects : o % 3 = 0}

\* ------------------------------------------------------------ finite maps
\* A HashMap is a function whose domain is the set of its keys.
EmptyMap == [k \in {} |-> 0]
MapPut(m, k, v) == [x \in (DOMAIN m) \cup {k} |-> IF x = k THEN v ELSE m[x]]
MapDel(m, k) == [x \in (DOMAIN m) \ {k} |-> m[x]]

\* All sequences over S of length at most n (the Vec arguments).
SeqsUpTo(S, n) == UNION {[1..k -> S] : k \in 0..n}

\* The set of ids of a vector of objects.
IdsOf(vec) == {vec[i].id : i \in DOMAIN vec}

VARIABLES
    blocks,                  \* Arc<RwLock<BlockIndexes>>
    operations,              \* Arc<RwLock<OperationIndexes>>
    endorsements,            \* Arc<RwLock<EndorsementIndexes>>
    block_owners,            \* Arc<RwLock<Map<BlockId, usize>>>
    operation_owners,        \* Arc<RwLock<Map<OperationId, usize>>>
    endorsement_owners,      \* Arc<RwLock<Map<EndorsementId, usize>>>
    local_used_blocks,       \* per holder: Set<BlockId>
    local_used_ops,          \* per holder: Set<OperationId>
    local_used_endorsements, \* per holder: Set<EndorsementId>
    live,                    \* the Storage handles that exist
    panicked,                \* a panic!/expect of the store was hit
    pc,                      \* SpecLocks: per holder, the position in its running call
    held,                    \* SpecLocks: per holder, the write guards it owns, oldest first
    call_arg,                \* SpecLocks: per holder, the argument of its running call
    orphaned_ids             \* SpecLocks: per holder, drop_block_refs's orphaned_ids

storeVars == <<blocks, operations, endorsements, block_owners, operation_owners,
               endorsement_owners, local_used_blocks, local_used_ops,
               local_used_endorsements, live, panicked>>
lockVars == <<pc, held, call_arg, orphaned_ids>>

VARIABLES
    previous_slot,           \* GraphWorker.previous_slot: Option<Slot>, << >> is None
    next_slot,               \* GraphWorker.next_slot
    next_instant,            \* GraphWorker.next_instant
    command_receiver,        \* the commands queued in the mpsc channel, oldest first
    senders_alive,           \* some Sender of the channel has not been dropped
    sent,                    \* every command sent so far, in send order
    shared_state,            \* what the calls made on the shared state have recorded
    worker_pc,               \* where GraphWorker::run is
    warning,                 \* the warn! of the last pass of the loop, << >> if none
    info,                    \* the info! messages of the last pass of the loop, in order
    network_started,         \* how many times "Massa network has started" was logged
    guards,                  \* the guards of shared_state the worker thread holds
    clock_now                \* SpecNextSlot: the clock reading of the get_next_slot call

workerVars == <<previous_slot, next_slot, next_instant, command_receiver, senders_alive,
                sent, shared_state, worker_pc, warning, info, network_started,
                guards, clock_now>>

VARIABLES
    changes,                 \* the DeferredCallRegistryChanges handed to serialize
    buffer,                  \* the bytes written by serialize, read by deserialize
    deserialized,            \* what deserialize returned
    codec_pc,                \* where the serialize / deserialize run is
    header,                  \* the BlockHeader handed to serialize
    reserialized,            \* the bytes of the deserialized value, serialized again
    last_write,              \* the latest write made on changes to each call and to the total gas
    got,                     \* the last getter called on changes with what it returned, << >> if none
    write_count              \* how many writes were made on changes

\* What the calls of the methods of DeferredCallRegistryChanges keep track of.
opsVars == <<last_write, got, write_count>>
codecVars == <<changes, buffer, deserialized, codec_pc, header, reserialized, opsVars>>

VARIABLES
    v1,                      \* assert_eq_final_state: the first FinalState
    v2,                      \* assert_eq_final_state: the second FinalState
    assert_outcome           \* "passed", or the message of the assertion that failed

finalStateVars == <<v1, v2, assert_outcome>>

VARIABLES
    mock_receiver,           \* the Receiver of the mock's messages has not been dropped
    mock_messages,           \* the messages queued for the Receiver, oldest first
    mock_poisoned,           \* the Mutex around the Sender is poisoned
    mock_calls,              \* the calls made on the mock, with how each ended
    mock_log                 \* the lines printed by the mock

mockVars == <<mock_receiver, mock_messages, mock_poisoned, mock_calls, mock_log>>

\* The state outside massa-storage.
nonStorageVars == <<workerVars, codecVars, finalStateVars, mockVars>>
\* The state outside the graph worker.
nonWorkerVars == <<storeVars, lockVars, codecVars, finalStateVars, mockVars>>
\* The state outside the codecs.
nonCodecVars == <<storeVars, lockVars, workerVars, finalStateVars, mockVars>>
\* The state outside assert_eq_final_state.
nonFinalStateVars == <<storeVars, lockVars, workerVars, codecVars, mockVars>>
\* The state outside the mock execution controller.
nonMockVars == <<storeVars, lockVars, workerVars, codecVars, finalStateVars>>
vars == <<storeVars, lockVars, workerVars, codecVars, finalStateVars, mockVars>>

\* ------------------------------------------------------- payloads (inputs)
\* An object carries its id and its creator address. A block's and an
\* operation's id fixes its content; endorsements are offered with every
\* creator, so that a second insert under a stored id carries another payload.
CreatorOf(id) == (id % MaxAddrs) + 1
BlockPayloads == {[id |-> i, creator |-> CreatorOf(i)] : i \in BlockIds}
OperationPayloads == {[id |-> i, creator |-> CreatorOf(i)] : i \in OperationIds}
EndorsementPayloads == {[id |-> i, creator |-> a] : i \in EndorsementIds, a \in Addrs}

\* ------------------------------------------------------ secondary indexes
\* EndorsementIndexes::default
EndorsementIndexes_default == [endorsements |-> EmptyMap, index_by_creator |-> EmptyMap]

\* Mutant of EndorsementIndexes::insert: the contains_key test is missing, a
\* second insert under a stored id replaces the payload.
EndorsementIndexes_insert_overwrites(self, endorsement) ==
    LET old == IF endorsement.creator \in DOMAIN self.index_by_creator
               THEN self.index_by_creator[endorsement.creator]
               ELSE {}
    IN  [endorsements |-> MapPut(self.endorsements, endorsement.id, endorsement),
         index_by_creator |->
             MapPut(self.index_by_creator, endorsement.creator, old \cup {endorsement.id})]

\* EndorsementIndexes::insert: nothing when the id is stored; else the
\* endorsement is stored and its id joins the creator's set.
EndorsementIndexes_insert(self, endorsement) ==
    IF endorsement.id \notin DOMAIN self.endorsements
    THEN LET stored == MapPut(self.endorsements, endorsement.id, endorsement)
             e == stored[endorsement.id]
             old == IF e.creator \in DOMAIN self.index_by_creator
                    THEN self.index_by_creator[e.creator]
                    ELSE {}
         IN  [endorsements |-> stored,
              index_by_creator |-> MapPut(self.index_by_creator, e.creator, old \cup {e.id})]
    ELSE self

\* Mutant of EndorsementIndexes::remove: the creator index is not updated.
EndorsementIndexes_remove_keeps_index(self, endorsement_id) ==
    IF endorsement_id \in DOMAIN self.endorsements
    THEN [endorsements |-> MapDel(self.endorsements, endorsement_id),
          index_by_creator |-> self.index_by_creator]
    ELSE self

\* EndorsementIndexes::remove: what the call returns, the endorsement removed
\* from the primary map or None.
EndorsementIndexes_remove_returned(self, endorsement_id) ==
    IF endorsement_id \in DOMAIN self.endorsements
    THEN <<self.endorsements[endorsement_id]>>
    ELSE << >>

\* Mutant of EndorsementIndexes::remove: the creator's key stays when its set
\* becomes empty.
EndorsementIndexes_remove_keeps_key(self, endorsement_id) ==
    IF endorsement_id \in DOMAIN self.endorsements
    THEN LET e == self.endorsements[endorsement_id]
             idx == self.index_by_creator
         IN  [endorsements |-> MapDel(self.endorsements, endorsement_id),
              index_by_creator |->
                  IF e.creator \in DOMAIN idx
                  THEN MapPut(idx, e.creator, idx[e.creator] \ {e.id})
                  ELSE idx]
    ELSE self

\* EndorsementIndexes::remove: the index after the call. The creator's set
\* loses the id, and the creator's key goes with its last id.
EndorsementIndexes_remove(self, endorsement_id) ==
    IF endorsement_id \in DOMAIN self.endorsements
    THEN LET e == self.endorsements[endorsement_id]
             idx == self.index_by_creator
         IN  [endorsements |-> MapDel(self.endorsements, endorsement_id),
              index_by_creator |->
                  IF e.creator \in DOMAIN idx
                  THEN LET rest == idx[e.creator] \ {e.id}
                       IN  IF rest = {} THEN MapDel(idx, e.creator)
                           ELSE MapPut(idx, e.creator, rest)
                  ELSE idx]
    ELSE self

\* block_indexes.rs and operation_indexes.rs are not part of the sources at
\* hand: BlockIndexes and OperationIndexes follow the index contract (insert
\* idempotent on the id, remove purging the payload and the creator entry).
BlockIndexes_default == [blocks |-> EmptyMap, index_by_creator |-> EmptyMap]

BlockIndexes_insert(self, block) ==
    IF block.id \notin DOMAIN self.blocks
    THEN LET old == IF block.creator \in DOMAIN self.index_by_creator
                    THEN self.index_by_creator[block.creator]
                    ELSE {}
         IN  [blocks |-> MapPut(self.blocks, block.id, block),
              index_by_creator |-> MapPut(self.index_by_creator, block.creator, old \cup {block.id})]
    ELSE self

BlockIndexes_remove(self, block_id) ==
    IF block_id \in DOMAIN self.blocks
    THEN LET b == self.blocks[block_id]
             rest == self.index_by_creator[b.creator] \ {block_id}
         IN  [blocks |-> MapDel(self.blocks, block_id),
              index_by_creator |->
                  IF rest = {} THEN MapDel(self.index_by_creator, b.creator)
                  ELSE MapPut(self.index_by_creator, b.creator, rest)]
    ELSE self

OperationIndexes_default == [operations |-> EmptyMap, index_by_creator |-> EmptyMap]

OperationIndexes_insert(self, operation) ==
    IF operation.id \notin DOMAIN self.operations
    THEN LET old == IF operation.creator \in DOMAIN self.index_by_creator
                    THEN self.index_by_creator[operation.creator]
                    ELSE {}
         IN  [operations |-> MapPut(self.operations, operation.id, operation),
              index_by_creator |->
                  MapPut(self.index_by_creator, operation.creator, old \cup {operation.id})]
    ELSE self

OperationIndexes_remove(self, operation_id) ==
    IF operation_id \in DOMAIN self.operations
    THEN LET o == self.operations[operation_id]
             rest == self.index_by_creator[o.creator] \ {operation_id}
         IN  [operations |-> MapDel(self.operations, operation_id),
              index_by_creator |->
                  IF rest = {} THEN MapDel(self.index_by_creator, o.creator)
                  ELSE MapPut(self.index_by_creator, o.creator, rest)]
    ELSE self

\* ---------------------------------------------------------------- Storage
\* Mutant of Storage::internal_claim_refs: the result of local_used_ids.insert
\* is ignored, every listed id gets one more owner.
internal_claim_refs_always_counts(ids, owners, local_used_ids) ==
    [owners |-> [id \in (DOMAIN owners) \cup ids |->
                    IF id \in ids
                    THEN (IF id \in DOMAIN owners THEN owners[id] + 1 ELSE 1)
                    ELSE owners[id]],
     local_used_ids |-> local_used_ids \cup ids]

\* Storage::internal_claim_refs: every id the holder did not hold joins its
\* local set and gets one more owner (a first owner when it had none).
internal_claim_refs(ids, owners, local_used_ids) ==
    LET fresh == {id \in ids : id \notin local_used_ids}
    IN  [owners |-> [id \in (DOMAIN owners) \cup fresh |->
                        IF id \in fresh
                        THEN (IF id \in DOMAIN owners THEN owners[id] + 1 ELSE 1)
                        ELSE owners[id]],
         local_used_ids |-> local_used_ids \cup ids]

\* Mutant of Storage::claim_block_refs: the owners.contains_key filter is
\* missing, every requested id is claimed.
claim_block_refs_unfiltered(ids, owners, local_used_blocks_h) ==
    LET r == internal_claim_refs(ids, owners, local_used_blocks_h)
    IN  [claimed |-> ids, owners |-> r.owners, local_used_ids |-> r.local_used_ids]

\* Storage::claim_block_refs: the requested ids that have an owner entry are
\* claimed and returned.
claim_block_refs(ids, owners, local_used_blocks_h) ==
    IF ids = {}
    THEN [claimed |-> {}, owners |-> owners, local_used_ids |-> local_used_blocks_h]
    ELSE LET claimed == {id \in ids : id \in DOMAIN owners}
             r == internal_claim_refs(claimed, owners, local_used_blocks_h)
         IN  [claimed |-> claimed, owners |-> r.owners, local_used_ids |-> r.local_used_ids]

\* Storage::claim_operation_refs
claim_operation_refs(ids, owners, local_used_ops_h) ==
    IF ids = {}
    THEN [claimed |-> {}, owners |-> owners, local_used_ids |-> local_used_ops_h]
    ELSE LET claimed == {id \in ids : id \in DOMAIN owners}
             r == internal_claim_refs(claimed, owners, local_used_ops_h)
         IN  [claimed |-> claimed, owners |-> r.owners, local_used_ids |-> r.local_used_ids]

\* Storage::claim_endorsement_refs
claim_endorsement_refs(ids, owners, local_used_endorsements_h) ==
    IF ids = {}
    THEN [claimed |-> {}, owners |-> owners, local_used_ids |-> local_used_endorsements_h]
    ELSE LET claimed == {id \in ids : id \in DOMAIN owners}
             r == internal_claim_refs(claimed, owners, local_used_endorsements_h)
         IN  [claimed |-> claimed, owners |-> r.owners, local_used_ids |-> r.local_used_ids]

\* Mutant of the drop loop: the result of local_used_ids.remove is ignored,
\* every listed id that has an owner entry loses one owner.
drop_refs_loop_any_holder(ids, owners, local_used_ids) ==
    LET hit == ids \cap DOMAIN owners
        orphaned == {id \in hit : owners[id] = 1}
    IN  [panic |-> FALSE,
         orphaned_ids |-> orphaned,
         owners |-> [id \in (DOMAIN owners) \ orphaned |->
                        IF id \in hit THEN owners[id] - 1 ELSE owners[id]],
         local_used_ids |-> local_used_ids \ ids]

\* The loop of drop_block_refs / drop_operation_refs / drop_endorsement_refs
\* under the owners' write guard: every requested id that the holder holds
\* leaves its local set and loses one owner; an id whose count reaches zero
\* loses its entry and is orphaned. A held id without an entry, or with a
\* count of zero, is a panic.
drop_refs_loop(ids, owners, local_used_ids) ==
    LET hit == ids \cap local_used_ids
        bad == {id \in hit : id \notin DOMAIN owners \/ owners[id] = 0}
        orphaned == {id \in hit \ bad : owners[id] = 1}
    IN  [panic |-> bad # {},
         orphaned_ids |-> orphaned,
         owners |-> [id \in (DOMAIN owners) \ orphaned |->
                        IF id \in hit \ bad THEN owners[id] - 1 ELSE owners[id]],
         local_used_ids |-> local_used_ids \ ids]

RECURSIVE remove_blocks(_, _)
\* for b_id in orphaned_ids { blocks.remove(&b_id) }
remove_blocks(store, ids) ==
    IF ids = {} THEN store
    ELSE LET id == CHOOSE x \in ids : TRUE
         IN  remove_blocks(BlockIndexes_remove(store, id), ids \ {id})

RECURSIVE remove_operations(_, _)
\* for id in orphaned_ids { ops.remove(&id) }
remove_operations(store, ids) ==
    IF ids = {} THEN store
    ELSE LET id == CHOOSE x \in ids : TRUE
         IN  remove_operations(OperationIndexes_remove(store, id), ids \ {id})

RECURSIVE remove_endorsements(_, _)
\* for id in orphaned_ids { endos.remove(&id) }
remove_endorsements(store, ids) ==
    IF ids = {} THEN store
    ELSE LET id == CHOOSE x \in ids : TRUE
         IN  remove_endorsements(EndorsementIndexes_remove(store, id), ids \ {id})

\* Mutant of Storage::drop_block_refs: the orphaned ids are not removed from
\* the block store.
drop_block_refs_keeps_orphans(ids, store, owners, local_used_blocks_h) ==
    LET r == drop_refs_loop(ids, owners, local_used_blocks_h)
    IN  [panic |-> r.panic, store |-> store, owners |-> r.owners,
         local_used_ids |-> r.local_used_ids]

\* Storage::drop_block_refs
drop_block_refs(ids, store, owners, local_used_blocks_h) ==
    IF ids = {}
    THEN [panic |-> FALSE, store |-> store, owners |-> owners,
          local_used_ids |-> local_used_blocks_h]
    ELSE LET r == drop_refs_loop(ids, owners, local_used_blocks_h)
         IN  [panic |-> r.panic,
              store |-> IF r.orphaned_ids # {} THEN remove_blocks(store, r.orphaned_ids)
                        ELSE store,
              owners |-> r.owners,
              local_used_ids |-> r.local_used_ids]

\* Storage::drop_operation_refs
drop_operation_refs(ids, store, owners, local_used_ops_h) ==
    IF ids = {}
    THEN [panic |-> FALSE, store |-> store, owners |-> owners,
          local_used_ids |-> local_used_ops_h]
    ELSE LET r == drop_refs_loop(ids, owners, local_used_ops_h)
         IN  [panic |-> r.panic,
              store |-> IF r.orphaned_ids # {} THEN remove_operations(store, r.orphaned_ids)
                        ELSE store,
              owners |-> r.owners,
              local_used_ids |-> r.local_used_ids]

\* Storage::drop_endorsement_refs
drop_endorsement_refs(ids, store, owners, local_used_endorsements_h) ==
    IF ids = {}
    THEN [panic |-> FALSE, store |-> store, owners |-> owners,
          local_used_ids |-> local_used_endorsements_h]
    ELSE LET r == drop_refs_loop(ids, owners, local_used_endorsements_h)
         IN  [panic |-> r.panic,
              store |-> IF r.orphaned_ids # {} THEN remove_endorsements(store, r.orphaned_ids)
                        ELSE store,
              owners |-> r.owners,
              local_used_ids |-> r.local_used_ids]

\* Storage::store_block
store_block(block, store, owners, local_used_blocks_h) ==
    LET r == internal_claim_refs({block.id}, owners, local_used_blocks_h)
    IN  [store |-> BlockIndexes_insert(store, block),
         owners |-> r.owners,
         local_used_ids |-> r.local_used_ids]

RECURSIVE insert_operations(_, _)
\* for op in operations { op_store.insert(op) }
insert_operations(store, vec) ==
    IF vec = << >> THEN store
    ELSE insert_operations(OperationIndexes_insert(store, Head(vec)), Tail(vec))

RECURSIVE insert_endorsements(_, _)
\* for endorsement in endorsements { endo_store.insert(endorsement) }
insert_endorsements(store, vec) ==
    IF vec = << >> THEN store
    ELSE insert_endorsements(EndorsementIndexes_insert(store, Head(vec)), Tail(vec))

\* Storage::store_operations
store_operations(vec, store, owners, local_used_ops_h) ==
    IF vec = << >>
    THEN [store |-> store, owners |-> owners, local_used_ids |-> local_used_ops_h]
    ELSE LET r == internal_claim_refs(IdsOf(vec), owners, local_used_ops_h)
         IN  [store |-> insert_operations(store, vec),
              owners |-> r.owners,
              local_used_ids |-> r.local_used_ids]

\* Storage::store_endorsements
store_endorsements(vec, store, owners, local_used_endorsements_h) ==
    IF vec = << >>
    THEN [store |-> store, owners |-> owners, local_used_ids |-> local_used_endorsements_h]
    ELSE LET r == internal_claim_refs(IdsOf(vec), owners, local_used_endorsements_h)
         IN  [store |-> insert_endorsements(store, vec),
              owners |-> r.owners,
              local_used_ids |-> r.local_used_ids]

\* Mutant of Storage::extend: the drain_filter test is missing, other is
\* drained of every id.
extend_refs_drains_all(self_local, other_local) ==
    [self_local |-> self_local \cup other_local, other_local |-> {}]

\* Storage::extend, one kind: self takes every id of other that it does not
\* hold; other keeps the ids both hold.
extend_refs(self_local, other_local) ==
    LET moved == {id \in other_local : id \notin self_local}
    IN  [self_local |-> self_local \cup moved, other_local |-> other_local \ moved]

\* Mutant of Storage::split_off: the listed ids are read with get, not take,
\* and stay in self.
split_off_refs_copies(self_local, ids) ==
    [panic |-> \E id \in ids : id \notin self_local,
     self_local |-> self_local,
     res_local |-> ids \cap self_local]

\* Storage::split_off, one kind: the listed ids are taken from self; a listed
\* id that self does not hold is a panic.
split_off_refs(self_local, ids) ==
    [panic |-> \E id \in ids : id \notin self_local,
     self_local |-> self_local \ ids,
     res_local |-> ids \cap self_local]

\* ------------------------------------------------- Spec: completed calls
\* No graph worker is running.
NoWorker ==
    /\ previous_slot = << >>
    /\ next_slot = [period |-> 0, thread |-> 0]
    /\ next_instant = 0
    /\ command_receiver = << >>
    /\ senders_alive = FALSE
    /\ sent = << >>
    /\ shared_state = [applied |-> << >>, slot_tick |-> << >>]
    /\ worker_pc = "none"
    /\ warning = << >>
    /\ info = << >>
    /\ network_started = 0
    /\ guards = {}
    /\ clock_now = << >>

\* No method of DeferredCallRegistryChanges was called.
NoOps ==
    /\ last_write = [calls |-> [k \in {} |-> 0], total_gas |-> << >>]
    /\ got = << >>
    /\ write_count = 0

\* No codec run.
NoCodec ==
    /\ changes = << >>
    /\ buffer = << >>
    /\ deserialized = << >>
    /\ codec_pc = "none"
    /\ header = << >>
    /\ reserialized = << >>
    /\ NoOps

\* No FinalState is being compared.
NoFinalState ==
    /\ v1 = << >>
    /\ v2 = << >>
    /\ assert_outcome = "none"

\* No mock execution controller was created.
NoMock ==
    /\ mock_receiver = FALSE
    /\ mock_messages = << >>
    /\ mock_poisoned = FALSE
    /\ mock_calls = << >>
    /\ mock_log = << >>

\* A handle that does not exist holds nothing.
NoRefs == [h \in Holders |-> {}]

ConstInit ==
    /\ blocks = BlockIndexes_default
    /\ operations = OperationIndexes_default
    /\ endorsements = EndorsementIndexes_default
    /\ block_owners = EmptyMap
    /\ operation_owners = EmptyMap
    /\ endorsement_owners = EmptyMap
    /\ local_used_blocks = NoRefs
    /\ local_used_ops = NoRefs
    /\ local_used_endorsements = NoRefs
    /\ panicked = FALSE
    /\ pc = [h \in Holders |-> "idle"]
    /\ held = [h \in Holders |-> << >>]
    /\ call_arg = [h \in Holders |-> {}]
    /\ orphaned_ids = [h \in Holders |-> {}]

\* Storage::default(): one handle on an empty store.
Init ==
    /\ ConstInit
    /\ NoCodec
    /\ NoWorker /\ NoFinalState /\ NoMock
    /\ live = {1}

\* Storage::default() once every handle is gone: the store of the new handle
\* is empty, as the one the last handle left behind.
NewStorage(h) ==
    /\ UNCHANGED nonStorageVars
    /\ ~panicked
    /\ live = {}
    /\ live' = {h}
    /\ UNCHANGED <<blocks, operations, endorsements, block_owners, operation_owners,
                   endorsement_owners, local_used_blocks, local_used_ops,
                   local_used_endorsements, panicked, lockVars>>

\* Storage::clone_without_refs: a new handle on the same store, holding nothing.
CloneWithoutRefs(h, res) ==
    /\ UNCHANGED nonStorageVars
    /\ ~panicked
    /\ h \in live
    /\ res \notin live
    /\ live' = live \cup {res}
    /\ UNCHANGED <<blocks, operations, endorsements, block_owners, operation_owners,
                   endorsement_owners, local_used_blocks, local_used_ops,
                   local_used_endorsements, panicked, lockVars>>

\* Mutant of impl Clone for Storage: the local sets are copied and the owner
\* counts are left alone.
Clone_without_claim(h, res) ==
    /\ UNCHANGED nonStorageVars
    /\ ~panicked
    /\ h \in live
    /\ res \notin live
    /\ local_used_ops' = [local_used_ops EXCEPT ![res] = local_used_ops[h]]
    /\ local_used_blocks' = [local_used_blocks EXCEPT ![res] = local_used_blocks[h]]
    /\ local_used_endorsements' =
           [local_used_endorsements EXCEPT ![res] = local_used_endorsements[h]]
    /\ live' = live \cup {res}
    /\ UNCHANGED <<blocks, operations, endorsements, block_owners, operation_owners,
                   endorsement_owners, panicked, lockVars>>

\* impl Clone for Storage: clone_without_refs, then the new handle claims the
\* source's operations, blocks and endorsements.
Clone(h, res) ==
    /\ UNCHANGED nonStorageVars
    /\ ~panicked
    /\ h \in live
    /\ res \notin live
    /\ live' = live \cup {res}
    /\ UNCHANGED <<blocks, operations, endorsements, panicked, lockVars>>
    /\ LET o == internal_claim_refs(local_used_ops[h], operation_owners, {})
           b == internal_claim_refs(local_used_blocks[h], block_owners, {})
           e == internal_claim_refs(local_used_endorsements[h], endorsement_owners, {})
       IN  /\ operation_owners' = o.owners
           /\ local_used_ops' = [local_used_ops EXCEPT ![res] = o.local_used_ids]
           /\ block_owners' = b.owners
           /\ local_used_blocks' = [local_used_blocks EXCEPT ![res] = b.local_used_ids]
           /\ endorsement_owners' = e.owners
           /\ local_used_endorsements' =
                  [local_used_endorsements EXCEPT ![res] = e.local_used_ids]

\* A Drop that forgets the endorsements.
Storage_drop_skips_endorsements(lb, lo, le) ==
    [b |-> drop_block_refs(lb, blocks, block_owners, lb),
     o |-> drop_operation_refs(lo, operations, operation_owners, lo),
     e |-> [panic |-> FALSE, store |-> endorsements, owners |-> endorsement_owners,
            local_used_ids |-> le]]

\* impl Drop for Storage, for a handle holding the three given sets: the
\* result of drop_block_refs, drop_operation_refs and drop_endorsement_refs.
Storage_drop(lb, lo, le) ==
    [b |-> drop_block_refs(lb, blocks, block_owners, lb),
     o |-> drop_operation_refs(lo, operations, operation_owners, lo),
     e |-> drop_endorsement_refs(le, endorsements, endorsement_owners, le)]

\* A handle goes out of scope.
DropStorage(h) ==
    /\ UNCHANGED nonStorageVars
    /\ ~panicked
    /\ h \in live
    /\ live' = live \ {h}
    /\ UNCHANGED lockVars
    /\ LET d == Storage_drop(local_used_blocks[h], local_used_ops[h],
                             local_used_endorsements[h])
       IN  /\ blocks' = d.b.store
           /\ block_owners' = d.b.owners
           /\ local_used_blocks' = [local_used_blocks EXCEPT ![h] = d.b.local_used_ids]
           /\ operations' = d.o.store
           /\ operation_owners' = d.o.owners
           /\ local_used_ops' = [local_used_ops EXCEPT ![h] = d.o.local_used_ids]
           /\ endorsements' = d.e.store
           /\ endorsement_owners' = d.e.owners
           /\ local_used_endorsements' =
                  [local_used_endorsements EXCEPT ![h] = d.e.local_used_ids]
           /\ panicked' = (d.b.panic \/ d.o.panic \/ d.e.panic)

\* Storage::extend(&mut self, other): self takes the refs it lacks, then
\* other, consumed by the call, is dropped with the refs both held.
Extend(h, other) ==
    /\ UNCHANGED nonStorageVars
    /\ ~panicked
    /\ h \in live
    /\ other \in live
    /\ h # other
    /\ live' = live \ {other}
    /\ UNCHANGED lockVars
    /\ LET xo == extend_refs(local_used_ops[h], local_used_ops[other])
           xb == extend_refs(local_used_blocks[h], local_used_blocks[other])
           xe == extend_refs(local_used_endorsements[h], local_used_endorsements[other])
           d == Storage_drop(xb.other_local, xo.other_local, xe.other_local)
       IN  /\ blocks' = d.b.store
           /\ block_owners' = d.b.owners
           /\ local_used_blocks' = [local_used_blocks EXCEPT ![h] = xb.self_local,
                                                             ![other] = d.b.local_used_ids]
           /\ operations' = d.o.store
           /\ operation_owners' = d.o.owners
           /\ local_used_ops' = [local_used_ops EXCEPT ![h] = xo.self_local,
                                                       ![other] = d.o.local_used_ids]
           /\ endorsements' = d.e.store
           /\ endorsement_owners' = d.e.owners
           /\ local_used_endorsements' =
                  [local_used_endorsements EXCEPT ![h] = xe.self_local,
                                                  ![other] = d.e.local_used_ids]
           /\ panicked' = (d.b.panic \/ d.o.panic \/ d.e.panic)

\* Storage::split_off: a new handle takes the listed refs from self. The call
\* completes only if self holds every listed id (it panics otherwise).
SplitOff(h, res, bs, os, es) ==
    /\ ~panicked
    /\ h \in live
    /\ res \notin live
    /\ live' = live \cup {res}
    /\ UNCHANGED nonStorageVars
    /\ UNCHANGED <<blocks, operations, endorsements, block_owners, operation_owners,
                   endorsement_owners, panicked, lockVars>>
    /\ LET sb == split_off_refs(local_used_blocks[h], bs)
           so == split_off_refs(local_used_ops[h], os)
           se == split_off_refs(local_used_endorsements[h], es)
       IN  /\ ~(sb.panic \/ so.panic \/ se.panic)
           /\ local_used_blocks' = [local_used_blocks EXCEPT ![h] = sb.self_local,
                                                             ![res] = sb.res_local]
           /\ local_used_ops' = [local_used_ops EXCEPT ![h] = so.self_local,
                                                       ![res] = so.res_local]
           /\ local_used_endorsements' =
                  [local_used_endorsements EXCEPT ![h] = se.self_local,
                                                  ![res] = se.res_local]

ClaimBlockRefs(h, ids) ==
    /\ UNCHANGED nonStorageVars
    /\ ~panicked
    /\ h \in live
    /\ LET r == claim_block_refs(ids, block_owners, local_used_blocks[h])
       IN  /\ block_owners' = r.owners
           /\ local_used_blocks' = [local_used_blocks EXCEPT ![h] = r.local_used_ids]
    /\ UNCHANGED <<blocks, operations, endorsements, operation_owners, endorsement_owners,
                   local_used_ops, local_used_endorsements, live, panicked, lockVars>>

ClaimOperationRefs(h, ids) ==
    /\ UNCHANGED nonStorageVars
    /\ ~panicked
    /\ h \in live
    /\ LET r == claim_operation_refs(ids, operation_owners, local_used_ops[h])
       IN  /\ operation_owners' = r.owners
           /\ local_used_ops' = [local_used_ops EXCEPT ![h] = r.local_used_ids]
    /\ UNCHANGED <<blocks, operations, endorsements, block_owners, endorsement_owners,
                   local_used_blocks, local_used_endorsements, live, panicked, lockVars>>

ClaimEndorsementRefs(h, ids) ==
    /\ UNCHANGED nonStorageVars
    /\ ~panicked
    /\ h \in live
    /\ LET r == claim_endorsement_refs(ids, endorsement_owners, local_used_endorsements[h])
       IN  /\ endorsement_owners' = r.owners
           /\ local_used_endorsements' =
                  [local_used_endorsements EXCEPT ![h] = r.local_used_ids]
    /\ UNCHANGED <<blocks, operations, endorsements, block_owners, operation_owners,
                   local_used_blocks, local_used_ops, live, panicked, lockVars>>

DropBlockRefs(h, ids) ==
    /\ UNCHANGED nonStorageVars
    /\ ~panicked
    /\ h \in live
    /\ LET r == drop_block_refs(ids, blocks, block_owners, local_used_blocks[h])
       IN  /\ blocks' = r.store
           /\ block_owners' = r.owners
           /\ local_used_blocks' = [local_used_blocks EXCEPT ![h] = r.local_used_ids]
           /\ panicked' = r.panic
    /\ UNCHANGED <<operations, endorsements, operation_owners, endorsement_owners,
                   local_used_ops, local_used_endorsements, live, lockVars>>

DropOperationRefs(h, ids) ==
    /\ UNCHANGED nonStorageVars
    /\ ~panicked
    /\ h \in live
    /\ LET r == drop_operation_refs(ids, operations, operation_owners, local_used_ops[h])
       IN  /\ operations' = r.store
           /\ operation_owners' = r.owners
           /\ local_used_ops' = [local_used_ops EXCEPT ![h] = r.local_used_ids]
           /\ panicked' = r.panic
    /\ UNCHANGED <<blocks, endorsements, block_owners, endorsement_owners,
                   local_used_blocks, local_used_endorsements, live, lockVars>>

DropEndorsementRefs(h, ids) ==
    /\ UNCHANGED nonStorageVars
    /\ ~panicked
    /\ h \in live
    /\ LET r == drop_endorsement_refs(ids, endorsements, endorsement_owners,
                                      local_used_endorsements[h])
       IN  /\ endorsements' = r.store
           /\ endorsement_owners' = r.owners
           /\ local_used_endorsements' =
                  [local_used_endorsements EXCEPT ![h] = r.local_used_ids]
           /\ panicked' = r.panic
    /\ UNCHANGED <<blocks, operations, block_owners, operation_owners,
                   local_used_blocks, local_used_ops, live, lockVars>>

StoreBlock(h, block) ==
    /\ UNCHANGED nonStorageVars
    /\ ~panicked
    /\ h \in live
    /\ LET r == store_block(block, blocks, block_owners, local_used_blocks[h])
       IN  /\ blocks' = r.store
           /\ block_owners' = r.owners
           /\ local_used_blocks' = [local_used_blocks EXCEPT ![h] = r.local_used_ids]
    /\ UNCHANGED <<operations, endorsements, operation_owners, endorsement_owners,
                   local_used_ops, local_used_endorsements, live, panicked, lockVars>>

StoreOperations(h, vec) ==
    /\ UNCHANGED nonStorageVars
    /\ ~panicked
    /\ h \in live
    /\ LET r == store_operations(vec, operations, operation_owners, local_used_ops[h])
       IN  /\ operations' = r.store
           /\ operation_owners' = r.owners
           /\ local_used_ops' = [local_used_ops EXCEPT ![h] = r.local_used_ids]
    /\ UNCHANGED <<blocks, endorsements, block_owners, endorsement_owners,
                   local_used_blocks, local_used_endorsements, live, panicked, lockVars>>

StoreEndorsements(h, vec) ==
    /\ UNCHANGED nonStorageVars
    /\ ~panicked
    /\ h \in live
    /\ LET r == store_endorsements(vec, endorsements, endorsement_owners,
                                   local_used_endorsements[h])
       IN  /\ endorsements' = r.store
           /\ endorsement_owners' = r.owners
           /\ local_used_endorsements' =
                  [local_used_endorsements EXCEPT ![h] = r.local_used_ids]
    /\ UNCHANGED <<blocks, operations, block_owners, operation_owners,
                   local_used_blocks, local_used_ops, live, panicked, lockVars>>

Next ==
    \/ \E h \in Holders : NewStorage(h)
    \/ \E h \in Holders, res \in Holders : CloneWithoutRefs(h, res)
    \/ \E h \in Holders, res \in Holders : Clone(h, res)
    \/ \E h \in Holders : DropStorage(h)
    \/ \E h \in Holders, other \in Holders : Extend(h, other)
    \/ \E h \in Holders, res \in Holders, bs \in SUBSET BlockIds,
          os \in SUBSET OperationIds, es \in SUBSET EndorsementIds :
          SplitOff(h, res, bs, os, es)
    \/ \E h \in Holders, ids \in SUBSET BlockIds : ClaimBlockRefs(h, ids)
    \/ \E h \in Holders, ids \in SUBSET OperationIds : ClaimOperationRefs(h, ids)
    \/ \E h \in Holders, ids \in SUBSET EndorsementIds : ClaimEndorsementRefs(h, ids)
    \/ \E h \in Holders, ids \in SUBSET BlockIds : DropBlockRefs(h, ids)
    \/ \E h \in Holders, ids \in SUBSET OperationIds : DropOperationRefs(h, ids)
    \/ \E h \in Holders, ids \in SUBSET EndorsementIds : DropEndorsementRefs(h, ids)
    \/ \E h \in Holders, block \in BlockPayloads : StoreBlock(h, block)
    \/ \E h \in Holders, vec \in SeqsUpTo(OperationPayloads, MaxVec) : StoreOperations(h, vec)
    \/ \E h \in Holders, vec \in SeqsUpTo(EndorsementPayloads, MaxVec) :
          StoreEndorsements(h, vec)

Spec == Init /\ [][Next]_vars

\* ------------------------------------- SpecLocks: one step per write guard
\* Every handle lives on a thread of its own and runs store_block and
\* drop_block_refs on the shared store. blocks and block_owners are each
\* behind a parking_lot RwLock: write() returns once no other guard is held.
\* The code between two acquisitions touches only maps whose guard the thread
\* owns and its own local set, so it is one step.

\* The guards a holder owns.
Guards(h) == {held[h][i] : i \in DOMAIN held[h]}

\* RwLock::write() can return: no holder owns a guard of the lock.
LockFree(lock) == \A h \in Holders : lock \notin Guards(h)

\* The lock a holder is blocked on in write(), if any.
Requested(h) ==
    CASE pc[h] = "store_lock_blocks" -> {"blocks"}
      [] pc[h] = "store_lock_owners" -> {"block_owners"}
      [] pc[h] = "drop_lock_owners" -> {"block_owners"}
      [] pc[h] = "drop_lock_blocks" -> {"blocks"}
      [] OTHER -> {}

\* The handles of two threads, as clones of one default Storage that hold
\* nothing yet.
InitLocks ==
    /\ ConstInit
    /\ NoCodec
    /\ NoWorker /\ NoFinalState /\ NoMock
    /\ live = Holders

\* store_block is called (lib.rs:259-260).
CallStoreBlock(h, block) ==
    /\ UNCHANGED nonStorageVars
    /\ pc[h] = "idle"
    /\ pc' = [pc EXCEPT ![h] = "store_lock_blocks"]
    /\ call_arg' = [call_arg EXCEPT ![h] = {block}]
    /\ UNCHANGED <<storeVars, held, orphaned_ids>>

\* let mut blocks = self.blocks.write();
StoreLockBlocks(h) ==
    /\ UNCHANGED nonStorageVars
    /\ pc[h] = "store_lock_blocks"
    /\ LockFree("blocks")
    /\ held' = [held EXCEPT ![h] = Append(@, "blocks")]
    /\ pc' = [pc EXCEPT ![h] = "store_lock_owners"]
    /\ UNCHANGED <<storeVars, call_arg, orphaned_ids>>

\* let mut owners = self.block_owners.write();
StoreLockOwners(h) ==
    /\ UNCHANGED nonStorageVars
    /\ pc[h] = "store_lock_owners"
    /\ LockFree("block_owners")
    /\ held' = [held EXCEPT ![h] = Append(@, "block_owners")]
    /\ pc' = [pc EXCEPT ![h] = "store_body"]
    /\ UNCHANGED <<storeVars, call_arg, orphaned_ids>>

\* blocks.insert(block); internal_claim_refs(..); both guards go out of scope.
StoreBody(h) ==
    /\ UNCHANGED nonStorageVars
    /\ pc[h] = "store_body"
    /\ \E block \in call_arg[h] :
          LET r == store_block(block, blocks, block_owners, local_used_blocks[h])
          IN  /\ blocks' = r.store
              /\ block_owners' = r.owners
              /\ local_used_blocks' = [local_used_blocks EXCEPT ![h] = r.local_used_ids]
    /\ held' = [held EXCEPT ![h] = << >>]
    /\ pc' = [pc EXCEPT ![h] = "idle"]
    /\ call_arg' = [call_arg EXCEPT ![h] = {}]
    /\ UNCHANGED <<operations, endorsements, operation_owners, endorsement_owners,
                   local_used_ops, local_used_endorsements, live, panicked, orphaned_ids>>

\* drop_block_refs is called; it returns at once for an empty set.
CallDropBlockRefs(h, ids) ==
    /\ UNCHANGED nonStorageVars
    /\ pc[h] = "idle"
    /\ IF ids = {}
       THEN UNCHANGED <<pc, call_arg>>
       ELSE /\ pc' = [pc EXCEPT ![h] = "drop_lock_owners"]
            /\ call_arg' = [call_arg EXCEPT ![h] = ids]
    /\ UNCHANGED <<storeVars, held, orphaned_ids>>

\* let mut owners = self.block_owners.write();
DropLockOwners(h) ==
    /\ UNCHANGED nonStorageVars
    /\ pc[h] = "drop_lock_owners"
    /\ LockFree("block_owners")
    /\ held' = [held EXCEPT ![h] = Append(@, "block_owners")]
    /\ pc' = [pc EXCEPT ![h] = "drop_loop"]
    /\ UNCHANGED <<storeVars, call_arg, orphaned_ids>>

\* The loop over ids. With no orphaned id the call returns and the owners'
\* guard goes out of scope; else the call goes on to self.blocks.write(),
\* the owners' guard still in scope.
DropLoop(h) ==
    /\ UNCHANGED nonStorageVars
    /\ pc[h] = "drop_loop"
    /\ LET r == drop_refs_loop(call_arg[h], block_owners, local_used_blocks[h])
       IN  /\ block_owners' = r.owners
           /\ local_used_blocks' = [local_used_blocks EXCEPT ![h] = r.local_used_ids]
           /\ panicked' = (panicked \/ r.panic)
           /\ orphaned_ids' = [orphaned_ids EXCEPT ![h] = r.orphaned_ids]
           /\ IF r.orphaned_ids = {}
              THEN /\ held' = [held EXCEPT ![h] = << >>]
                   /\ pc' = [pc EXCEPT ![h] = "idle"]
              ELSE /\ held' = held
                   /\ pc' = [pc EXCEPT ![h] = "drop_lock_blocks"]
    /\ call_arg' = [call_arg EXCEPT ![h] = {}]
    /\ UNCHANGED <<blocks, operations, endorsements, operation_owners, endorsement_owners,
                   local_used_ops, local_used_endorsements, live>>

\* let mut blocks = self.blocks.write();
DropLockBlocks(h) ==
    /\ UNCHANGED nonStorageVars
    /\ pc[h] = "drop_lock_blocks"
    /\ LockFree("blocks")
    /\ held' = [held EXCEPT ![h] = Append(@, "blocks")]
    /\ pc' = [pc EXCEPT ![h] = "drop_remove"]
    /\ UNCHANGED <<storeVars, call_arg, orphaned_ids>>

\* for b_id in orphaned_ids { blocks.remove(&b_id) }; both guards go out of scope.
DropRemove(h) ==
    /\ UNCHANGED nonStorageVars
    /\ pc[h] = "drop_remove"
    /\ blocks' = remove_blocks(blocks, orphaned_ids[h])
    /\ orphaned_ids' = [orphaned_ids EXCEPT ![h] = {}]
    /\ held' = [held EXCEPT ![h] = << >>]
    /\ pc' = [pc EXCEPT ![h] = "idle"]
    /\ UNCHANGED <<operations, endorsements, block_owners, operation_owners,
                   endorsement_owners, local_used_blocks, local_used_ops,
                   local_used_endorsements, live, panicked, call_arg>>

NextLocks ==
    \/ \E h \in Holders, block \in BlockPayloads : CallStoreBlock(h, block)
    \/ \E h \in Holders : StoreLockBlocks(h)
    \/ \E h \in Holders : StoreLockOwners(h)
    \/ \E h \in Holders : StoreBody(h)
    \/ \E h \in Holders, ids \in SUBSET BlockIds : CallDropBlockRefs(h, ids)
    \/ \E h \in Holders : DropLockOwners(h)
    \/ \E h \in Holders : DropLoop(h)
    \/ \E h \in Holders : DropLockBlocks(h)
    \/ \E h \in Holders : DropRemove(h)

SpecLocks == InitLocks /\ [][NextLocks]_vars

\* ------------------------------- SpecIndex: the endorsement index on its own
\* EndorsementIndexes under any sequence of insert and remove, free of the
\* reference counting of Storage: any endorsement may be inserted and any id
\* removed at any time.
IndexIds == 1..MaxIndexIds
IndexPayloads == {[id |-> i, creator |-> a] : i \in IndexIds, a \in Addrs}

\* EndorsementIndexes::default(), no Storage handle.
InitIndex ==
    /\ ConstInit
    /\ NoCodec
    /\ NoWorker /\ NoFinalState /\ NoMock
    /\ live = {}

\* endorsements.insert(endorsement)
IndexInsert(endorsement) ==
    /\ UNCHANGED nonStorageVars
    /\ endorsements' = EndorsementIndexes_insert(endorsements, endorsement)
    /\ UNCHANGED <<blocks, operations, block_owners, operation_owners, endorsement_owners,
                   local_used_blocks, local_used_ops, local_used_endorsements, live,
                   panicked, lockVars>>

\* endorsements.remove(&endorsement_id)
IndexRemove(endorsement_id) ==
    /\ UNCHANGED nonStorageVars
    /\ endorsements' = EndorsementIndexes_remove(endorsements, endorsement_id)
    /\ UNCHANGED <<blocks, operations, block_owners, operation_owners, endorsement_owners,
                   local_used_blocks, local_used_ops, local_used_endorsements, live,
                   panicked, lockVars>>

NextIndex ==
    \/ \E endorsement \in IndexPayloads : IndexInsert(endorsement)
    \/ \E endorsement_id \in IndexIds : IndexRemove(endorsement_id)

SpecIndex == InitIndex /\ [][NextIndex]_vars

\* ------------------------------------------ graph worker: slots and clock
\* GraphConfig: thread_count threads per period, t0 milliseconds per period,
\* the genesis timestamp in milliseconds.
thread_count == 2
t0 == 1000
genesis_timestamp == 0
periods_per_cycle == 2

\* A Result or an Option is a sequence of at most one value: << >> is the
\* Err or the None, <<v>> the Ok(v) or the Some(v).
Some(v) == <<v>>
None == << >>

\* Slot { period, thread }
Slot(period, thread) == [period |-> period, thread |-> thread]

\* The total order of slots: period, then thread.
Slot_lt(a, b) == a.period < b.period \/ (a.period = b.period /\ a.thread < b.thread)
Slot_le(a, b) == a = b \/ Slot_lt(a, b)

\* Slot::get_next_slot(thread_count): the successor in the total order. (The
\* Err of a period beyond u64 is out of reach of the periods explored.)
Slot_get_next_slot(slot, tc) ==
    IF slot.thread + 1 >= tc THEN Slot(slot.period + 1, 0)
    ELSE Slot(slot.period, slot.thread + 1)

\* get_block_slot_timestamp: genesis + period * t0 + thread * (t0 / thread_count)
get_block_slot_timestamp(tc, t0_, genesis, slot) ==
    genesis + slot.period * t0_ + slot.thread * (t0_ \div tc)

\* The latest slot whose timestamp is at or before a timestamp past genesis.
get_latest_block_slot_at_timestamp(tc, t0_, genesis, timestamp) ==
    LET elapsed == timestamp - genesis
        in_period == (elapsed % t0_) \div (t0_ \div tc)
    IN  Slot(elapsed \div t0_, IF in_period >= tc THEN tc - 1 ELSE in_period)

\* get_closest_slot_to_timestamp: of the latest slot at the timestamp and its
\* successor, the one whose timestamp is the nearer; the first slot before
\* genesis.
get_closest_slot_to_timestamp(tc, t0_, genesis, timestamp) ==
    IF timestamp <= genesis THEN Slot(0, 0)
    ELSE LET latest == get_latest_block_slot_at_timestamp(tc, t0_, genesis, timestamp)
             succ == Slot_get_next_slot(latest, tc)
             before == timestamp - get_block_slot_timestamp(tc, t0_, genesis, latest)
             after == get_block_slot_timestamp(tc, t0_, genesis, succ) - timestamp
         IN  IF before <= after THEN latest ELSE succ

\* Mutant of get_next_slot: the double-production guard is missing.
get_next_slot_unguarded(previous, now) ==
    IF now = << >>
    THEN [panic |-> TRUE, next_slot |-> Slot(0, 0), next_instant |-> 0]
    ELSE LET closest == get_closest_slot_to_timestamp(thread_count, t0,
                                                      genesis_timestamp, now[1])
         IN  [panic |-> FALSE, next_slot |-> closest,
              next_instant |-> get_block_slot_timestamp(thread_count, t0,
                                                        genesis_timestamp, closest)]

\* Mutant of get_next_slot: the guard tests next_slot < prev_slot.
get_next_slot_strict_guard(previous, now) ==
    IF now = << >>
    THEN [panic |-> TRUE, next_slot |-> Slot(0, 0), next_instant |-> 0]
    ELSE LET closest == get_closest_slot_to_timestamp(thread_count, t0,
                                                      genesis_timestamp, now[1])
             slot == IF previous # << >> /\ Slot_lt(closest, previous[1])
                     THEN Slot_get_next_slot(previous[1], thread_count)
                     ELSE closest
         IN  [panic |-> FALSE, next_slot |-> slot,
              next_instant |-> get_block_slot_timestamp(thread_count, t0,
                                                        genesis_timestamp, slot)]

\* GraphWorker::get_next_slot(previous_slot), the clock giving now (an Err
\* when it cannot be read): MassaTime::now(..).expect(..) panics on the Err;
\* else the closest slot to now, or the successor of the previous slot when
\* the closest is not after it, and the instant of that slot.
get_next_slot(previous, now) ==
    IF now = << >>
    THEN [panic |-> TRUE, next_slot |-> Slot(0, 0), next_instant |-> 0]
    ELSE LET closest == get_closest_slot_to_timestamp(thread_count, t0,
                                                      genesis_timestamp, now[1])
             slot == IF previous # << >> /\ Slot_le(closest, previous[1])
                     THEN Slot_get_next_slot(previous[1], thread_count)
                     ELSE closest
         IN  [panic |-> FALSE, next_slot |-> slot,
              next_instant |-> get_block_slot_timestamp(thread_count, t0,
                                                        genesis_timestamp, slot)]

\* ------------------------------------------- SpecWorker: GraphWorker::run
\* The worker thread runs the loop of run(); the controller threads send
\* commands and drop their senders at any time. A send or a drop touches the
\* channel only, and the worker reads the channel only in recv_deadline: all
\* the worker does between two receives is one step.

\* What the host clock can return: a timestamp every quarter of a period, in
\* any order, or an error.
Times == {genesis_timestamp + (i * t0) \div 4 : i \in 0..(4 * MaxPeriod)}
ClockReadings == {None} \cup {Some(t) : t \in Times}

\* GraphCommand: the n-th command sent is about block n.
CommandKinds == {"RegisterBlockHeader", "RegisterBlock", "MarkInvalidBlock"}

\* The record the shared state keeps of a command handed to it: whether its
\* method succeeded, and the block_db_changed notifications that followed.
Applied(state, command, ok, notifications) ==
    [state EXCEPT !.applied =
        Append(@, [command |-> command, ok |-> ok, notifications |-> notifications])]

\* The body of GraphWorker::manage_command under the write guard, the
\* shared-state method answering method_ok and block_db_changed answering
\* notify_ok: the shared state after the call and the Ok (TRUE) or Err (FALSE)
\* returned.
ManagedCommand(state, command, method_ok, notify_ok) ==
    CASE command.kind = "RegisterBlockHeader" ->
             IF method_ok
             THEN [shared_state |-> Applied(state, command, TRUE, 1), result |-> notify_ok]
             ELSE [shared_state |-> Applied(state, command, FALSE, 0), result |-> FALSE]
      [] command.kind = "RegisterBlock" ->
             IF method_ok
             THEN [shared_state |-> Applied(state, command, TRUE, 1), result |-> notify_ok]
             ELSE [shared_state |-> Applied(state, command, FALSE, 0), result |-> FALSE]
      [] command.kind = "MarkInvalidBlock" ->
             [shared_state |-> Applied(state, command, TRUE, 0), result |-> TRUE]

\* Mutant of manage_command: the write guard outlives the call.
manage_command_keeps_guard(entered, state, command, method_ok, notify_ok) ==
    LET r == ManagedCommand(state, command, method_ok, notify_ok)
    IN  [shared_state |-> r.shared_state, result |-> r.result,
         guards |-> entered \cup {"write"}]

\* GraphWorker::manage_command, entered holding the guards in entered: the
\* write guard is taken in a local of the function, the command is applied
\* under it, and the local is dropped at the return, on the `?` of an Err as
\* on the final Ok(()): the guards held after the call are those held before.
manage_command(entered, state, command, method_ok, notify_ok) ==
    LET r == ManagedCommand(state, command, method_ok, notify_ok)
    IN  [shared_state |-> r.shared_state, result |-> r.result,
         guards |-> (entered \cup {"write"}) \ {"write"}]

\* GraphWorker as its constructor leaves it, the clock reading now: no
\* previous slot, the next slot and its instant from the clock, an empty
\* channel with live senders.
InitWorker ==
    /\ ConstInit
    /\ NoCodec /\ NoFinalState /\ NoMock
    /\ live = {}
    /\ previous_slot = None
    /\ \E now \in Times :
          /\ next_slot = get_next_slot(None, Some(now)).next_slot
          /\ next_instant = get_next_slot(None, Some(now)).next_instant
    /\ command_receiver = << >>
    /\ senders_alive = TRUE
    /\ sent = << >>
    /\ shared_state = [applied |-> << >>, slot_tick |-> None]
    /\ worker_pc = "running"
    /\ warning = None
    /\ info = << >>
    /\ network_started = 0
    /\ guards = {}
    /\ clock_now = None

\* A controller sends a command: Sender::send.
Send(kind) ==
    /\ senders_alive
    /\ Len(sent) < MaxCommands
    /\ LET command == [kind |-> kind, block_id |-> Len(sent) + 1]
       IN  /\ command_receiver' = Append(command_receiver, command)
           /\ sent' = Append(sent, command)
    /\ UNCHANGED <<previous_slot, next_slot, next_instant, senders_alive, shared_state,
                   worker_pc, warning, info, network_started, guards>>
    /\ UNCHANGED <<nonWorkerVars, clock_now>>

\* The last Sender is dropped.
DropSenders ==
    /\ senders_alive
    /\ senders_alive' = FALSE
    /\ UNCHANGED <<previous_slot, next_slot, next_instant, command_receiver, sent,
                   shared_state, worker_pc, warning, info, network_started, guards>>
    /\ UNCHANGED <<nonWorkerVars, clock_now>>

\* Mutant of RecvCommand: the newest queued command is received first.
RecvCommand_newest_first(method_ok, notify_ok) ==
    /\ worker_pc = "running"
    /\ command_receiver # << >>
    /\ LET n == Len(command_receiver)
           r == manage_command(guards, shared_state, command_receiver[n],
                               method_ok, notify_ok)
       IN  /\ shared_state' = r.shared_state
           /\ guards' = r.guards
           /\ warning' = IF r.result THEN None ELSE Some("Error in graph")
           /\ info' = << >>
           /\ UNCHANGED network_started
           /\ command_receiver' = SubSeq(command_receiver, 1, n - 1)
    /\ UNCHANGED <<previous_slot, next_slot, next_instant, senders_alive, sent, worker_pc>>
    /\ UNCHANGED <<nonWorkerVars, clock_now>>

\* Mutant of RecvCommand: the worker forgets its previous slot when it has
\* managed a command.
RecvCommand_resets_previous(method_ok, notify_ok) ==
    /\ worker_pc = "running"
    /\ command_receiver # << >>
    /\ LET r == manage_command(guards, shared_state, Head(command_receiver),
                               method_ok, notify_ok)
       IN  /\ shared_state' = r.shared_state
           /\ guards' = r.guards
           /\ warning' = IF r.result THEN None ELSE Some("Error in graph")
           /\ info' = << >>
           /\ UNCHANGED network_started
           /\ worker_pc' = worker_pc
           /\ command_receiver' = Tail(command_receiver)
    /\ previous_slot' = None
    /\ UNCHANGED <<next_slot, next_instant, senders_alive, sent>>
    /\ UNCHANGED <<nonWorkerVars, clock_now>>

\* Mutant of RecvCommand: the Err of manage_command ends run().
RecvCommand_stops_on_error(method_ok, notify_ok) ==
    /\ worker_pc = "running"
    /\ command_receiver # << >>
    /\ LET r == manage_command(guards, shared_state, Head(command_receiver),
                               method_ok, notify_ok)
       IN  /\ shared_state' = r.shared_state
           /\ guards' = r.guards
           /\ warning' = IF r.result THEN None ELSE Some("Error in graph")
           /\ info' = << >>
           /\ UNCHANGED network_started
           /\ worker_pc' = IF r.result THEN worker_pc ELSE "returned"
           /\ command_receiver' = Tail(command_receiver)
    /\ UNCHANGED <<previous_slot, next_slot, next_instant, senders_alive, sent>>
    /\ UNCHANGED <<nonWorkerVars, clock_now>>

\* wait_slot_or_command, recv_deadline returning Ok(command): a command is
\* queued (the channel is read before the deadline is looked at). The oldest
\* command is taken and managed, its Err logged with warn!: Interrupted, the
\* loop goes on to the next receive.
RecvCommand(method_ok, notify_ok) ==
    /\ worker_pc = "running"
    /\ command_receiver # << >>
    /\ LET r == manage_command(guards, shared_state, Head(command_receiver),
                               method_ok, notify_ok)
       IN  /\ shared_state' = r.shared_state
           /\ guards' = r.guards
           /\ warning' = IF r.result THEN None ELSE Some("Error in graph")
           /\ info' = << >>
           /\ UNCHANGED network_started
           /\ worker_pc' = worker_pc
           /\ command_receiver' = Tail(command_receiver)
    /\ UNCHANGED <<previous_slot, next_slot, next_instant, senders_alive, sent>>
    /\ UNCHANGED <<nonWorkerVars, clock_now>>

\* The cycle a slot is in: Slot::get_cycle.
Slot_get_cycle(slot, ppc) == slot.period \div ppc

\* Option<u64> < Option<u64>: None is below every Some.
Option_lt(a, b) == IF a = None THEN b # None ELSE b # None /\ a[1] < b[1]

\* Mutant of CycleInfo: the cycle message is logged when the previous cycle
\* is not above the observed one.
CycleInfo_every_tick(previous, slot) ==
    LET previous_cycle == IF previous = None THEN None
                          ELSE Some(Slot_get_cycle(previous[1], periods_per_cycle))
        observed_cycle == Slot_get_cycle(slot, periods_per_cycle)
    IN  (IF previous_cycle = None THEN <<"Massa network has started">> ELSE << >>)
        \o (IF ~Option_lt(Some(observed_cycle), previous_cycle)
            THEN <<"Started cycle">> ELSE << >>)

\* The head of the Ended arm of run(), previous being previous_slot and slot
\* next_slot: the info! messages logged, in order. "Massa network has started"
\* when there is no previous cycle, "Started cycle" when the previous cycle is
\* below the observed one.
CycleInfo(previous, slot) ==
    LET previous_cycle == IF previous = None THEN None
                          ELSE Some(Slot_get_cycle(previous[1], periods_per_cycle))
        observed_cycle == Slot_get_cycle(slot, periods_per_cycle)
    IN  (IF previous_cycle = None THEN <<"Massa network has started">> ELSE << >>)
        \o (IF Option_lt(previous_cycle, Some(observed_cycle))
            THEN <<"Started cycle">> ELSE << >>)

\* How many times message is in a log.
Logged(log, message) == Cardinality({i \in DOMAIN log : log[i] = message})

\* The block of the Ended arm of run() that ticks slot, slot_tick answering
\* tick_ok, entered holding the guards in entered: the write guard is taken
\* in a local of the block, slot_tick is called under it and its Err is
\* logged with warn!, and the local is dropped at the end of the block.
SlotTickBlock(entered, state, slot, tick_ok) ==
    [shared_state |-> [state EXCEPT !.slot_tick = Some(slot)],
     warning |-> IF tick_ok THEN None ELSE Some("Error while processing block tick"),
     guards |-> (entered \cup {"write"}) \ {"write"}]

\* wait_slot_or_command, recv_deadline returning Err(Timeout): the channel is
\* empty with a live sender and the deadline passes. Ended: the next slot is
\* ticked, slot_tick answering tick_ok, and becomes the previous slot, then
\* get_next_slot reads the clock; its panic ends the thread before the next
\* slot is assigned.
RecvTimeout(now, tick_ok) ==
    /\ worker_pc = "running"
    /\ command_receiver = << >>
    /\ senders_alive
    /\ next_slot.period <= MaxPeriod
    /\ info' = CycleInfo(previous_slot, next_slot)
    /\ network_started' =
           network_started + Logged(CycleInfo(previous_slot, next_slot),
                                    "Massa network has started")
    /\ LET b == SlotTickBlock(guards, shared_state, next_slot, tick_ok)
       IN  /\ shared_state' = b.shared_state
           /\ warning' = b.warning
           /\ guards' = b.guards
    /\ previous_slot' = Some(next_slot)
    /\ LET r == get_next_slot(Some(next_slot), now)
       IN  IF r.panic
           THEN /\ worker_pc' = "panicked"
                /\ UNCHANGED <<next_slot, next_instant>>
           ELSE /\ worker_pc' = worker_pc
                /\ next_slot' = r.next_slot
                /\ next_instant' = r.next_instant
    /\ UNCHANGED <<command_receiver, senders_alive, sent>>
    /\ UNCHANGED <<nonWorkerVars, clock_now>>

\* Mutant of RecvDisconnected: the disconnection is reported with commands
\* still queued.
RecvDisconnected_before_drain ==
    /\ worker_pc = "running"
    /\ ~senders_alive
    /\ worker_pc' = "returned"
    /\ warning' = None
    /\ info' = << >>
    /\ UNCHANGED network_started
    /\ UNCHANGED <<previous_slot, next_slot, next_instant, command_receiver, senders_alive,
                   sent, shared_state, guards>>
    /\ UNCHANGED <<nonWorkerVars, clock_now>>

\* wait_slot_or_command, recv_deadline returning Err(Disconnected): the
\* channel is empty and every sender is dropped. Disconnected: run() breaks
\* out of the loop and returns.
RecvDisconnected ==
    /\ worker_pc = "running"
    /\ command_receiver = << >>
    /\ ~senders_alive
    /\ worker_pc' = "returned"
    /\ warning' = None
    /\ info' = << >>
    /\ UNCHANGED network_started
    /\ UNCHANGED <<previous_slot, next_slot, next_instant, command_receiver, senders_alive,
                   sent, shared_state, guards>>
    /\ UNCHANGED <<nonWorkerVars, clock_now>>

NextWorker ==
    \/ \E kind \in CommandKinds : Send(kind)
    \/ DropSenders
    \/ \E method_ok \in BOOLEAN, notify_ok \in BOOLEAN : RecvCommand(method_ok, notify_ok)
    \/ \E now \in ClockReadings, tick_ok \in BOOLEAN : RecvTimeout(now, tick_ok)
    \/ RecvDisconnected

SpecWorker == InitWorker /\ [][NextWorker]_vars

\* ------------------------------------ SpecNextSlot: get_next_slot, one call
\* get_next_slot called once on any previous slot (or none) under any clock
\* reading, the error included.
InputSlots == {Slot(p, t) : p \in 0..MaxInputPeriod, t \in 0..(thread_count - 1)}
InputTimes == {genesis_timestamp + (i * t0) \div 4 : i \in 0..(4 * MaxInputPeriod)}

InitNextSlot ==
    /\ ConstInit
    /\ NoCodec /\ NoFinalState /\ NoMock
    /\ live = {}
    /\ previous_slot \in {None} \cup {Some(slot) : slot \in InputSlots}
    /\ clock_now \in {None} \cup {Some(t) : t \in InputTimes}
    /\ next_slot = Slot(0, 0)
    /\ next_instant = 0
    /\ command_receiver = << >>
    /\ senders_alive = FALSE
    /\ sent = << >>
    /\ shared_state = [applied |-> << >>, slot_tick |-> None]
    /\ worker_pc = "call"
    /\ warning = None
    /\ info = << >>
    /\ network_started = 0
    /\ guards = {}

\* (self.next_slot, self.next_instant) = self.get_next_slot(previous_slot)
CallGetNextSlot ==
    /\ UNCHANGED <<nonWorkerVars, clock_now>>
    /\ worker_pc = "call"
    /\ LET r == get_next_slot(previous_slot, clock_now)
       IN  IF r.panic
           THEN /\ worker_pc' = "panicked"
                /\ UNCHANGED <<next_slot, next_instant>>
           ELSE /\ worker_pc' = "computed"
                /\ next_slot' = r.next_slot
                /\ next_instant' = r.next_instant
    /\ UNCHANGED <<previous_slot, command_receiver, senders_alive, sent, shared_state,
                   warning, info, network_started, guards>>

NextNextSlot == CallGetNextSlot

SpecNextSlot == InitNextSlot /\ [][NextNextSlot]_vars

\* ------------------------------------------------------ binary codec kernel
\* A buffer is a sequence of bytes (0..255). A decoder returns the value and
\* the remaining bytes, or an error.
Parsed(value, rest) == [ok |-> TRUE, value |-> value, rest |-> rest, context |-> "none", panic |-> FALSE]
ParseError == [ok |-> FALSE, value |-> 0, rest |-> << >>, context |-> "none", panic |-> FALSE]

\* The decoder did not return: an index out of the bounds of a slice.
Panic == [ParseError EXCEPT !.panic = TRUE]

\* context(label, parser): the error of the parser under its label.
Failed(label) == [ParseError EXCEPT !.context = label]

\* The full range of a varint decoder (u64::MAX, u128::MAX): the largest
\* value of the three-byte varints, beyond every value encoded here.
VarIntMax == 128 * 128 * 128 - 1

\* U64VarIntSerializer / U128VarIntSerializer: 7 bits a byte, low bits first,
\* the high bit set on every byte but the last.
RECURSIVE VarIntSerializer(_)
VarIntSerializer(n) ==
    IF n < 128 THEN <<n>>
    ELSE <<128 + (n % 128)>> \o VarIntSerializer(n \div 128)

\* The position of the last byte of the varint a buffer starts with, 0 when
\* the buffer ends first.
VarIntEnd(bytes) ==
    IF \E i \in DOMAIN bytes : bytes[i] < 128
    THEN CHOOSE i \in DOMAIN bytes :
             bytes[i] < 128 /\ \A j \in 1..(i - 1) : bytes[j] >= 128
    ELSE 0

RECURSIVE VarIntValue(_, _)
VarIntValue(bytes, n) ==
    IF n = 0 THEN 0
    ELSE (bytes[1] % 128) + 128 * VarIntValue(Tail(bytes), n - 1)

\* U64VarIntDeserializer::new(Included(min), Included(max)).deserialize: the
\* varint, refused when the buffer ends within it or its value is out of range.
VarIntDeserializer(min, max, bytes) ==
    LET n == VarIntEnd(bytes)
    IN  IF n = 0 THEN ParseError
        ELSE LET v == VarIntValue(bytes, n)
             IN  IF v < min \/ v > max THEN ParseError
                 ELSE Parsed(v, SubSeq(bytes, n + 1, Len(bytes)))

\* SlotSerializer: the period, then the thread.
SlotSerializer(slot) == VarIntSerializer(slot.period) \o VarIntSerializer(slot.thread)

\* SlotDeserializer::new((Included(0), Included(u64::MAX)),
\*                       (Included(0), Excluded(thread_count)))
SlotDeserializer(tc, bytes) ==
    LET p == VarIntDeserializer(0, VarIntMax, bytes)
    IN  IF ~p.ok THEN ParseError
        ELSE LET t == VarIntDeserializer(0, tc - 1, p.rest)
             IN  IF ~t.ok THEN ParseError
                 ELSE Parsed(Slot(p.value, t.value), t.rest)

\* SetOrKeep / SetOrDelete values.
Set(v) == [tag |-> "Set", value |-> v]
Keep == [tag |-> "Keep", value |-> 0]
Delete == [tag |-> "Delete", value |-> 0]

\* The bytes of several encodings written one after the other.
RECURSIVE Flatten(_)
Flatten(seqs) == IF seqs = << >> THEN << >> ELSE Head(seqs) \o Flatten(Tail(seqs))

\* Mutant of SlotsInOrder: the keys from the last to the first.
RECURSIVE SlotsInOrder_descending(_)
SlotsInOrder_descending(S) ==
    IF S = {} THEN << >>
    ELSE LET first == CHOOSE x \in S : \A y \in S : Slot_le(y, x)
         IN  <<first>> \o SlotsInOrder_descending(S \ {first})

\* The keys of a BTreeMap in iteration order.
RECURSIVE SlotsInOrder(_)
SlotsInOrder(S) ==
    IF S = {} THEN << >>
    ELSE LET first == CHOOSE x \in S : \A y \in S : Slot_le(x, y)
         IN  <<first>> \o SlotsInOrder(S \ {first})

RECURSIVE IdsInOrder(_)
IdsInOrder(S) ==
    IF S = {} THEN << >>
    ELSE LET first == CHOOSE x \in S : \A y \in S : x <= y
         IN  <<first>> \o IdsInOrder(S \ {first})

\* ------------------------------------------- deferred-call registry changes
\* DeferredCallsConfig.max_pool_changes (MAX_POOL_CHANGES), the cap of the
\* length prefixes, scaled to the model.
max_pool_changes == 2

\* DeferredRegistrySlotChangesSerializer (slot_changes.rs is not part of the
\* sources at hand; the layout is the documented one): the number of calls,
\* each call id with its discriminator (1 Set, 2 Delete) and the call when
\* Set, then the gas and the base fee, each a discriminator (0 Keep, 1 Set)
\* and the value when Set. A call id and a call are opaque values, written as
\* varints.
SetOrKeepSerializer(setter) ==
    IF setter.tag = "Set" THEN <<1>> \o VarIntSerializer(setter.value) ELSE <<0>>

RECURSIVE CallsSerializer(_, _)
CallsSerializer(calls, ids) ==
    IF ids = << >> THEN << >>
    ELSE LET id == Head(ids)
         IN  VarIntSerializer(id)
             \o (IF calls[id].tag = "Set"
                 THEN <<1>> \o VarIntSerializer(calls[id].value)
                 ELSE <<2>>)
             \o CallsSerializer(calls, Tail(ids))

SlotChangesSerializer(slot_changes) ==
    VarIntSerializer(Cardinality(DOMAIN slot_changes.calls))
    \o CallsSerializer(slot_changes.calls, IdsInOrder(DOMAIN slot_changes.calls))
    \o SetOrKeepSerializer(slot_changes.effective_slot_gas)
    \o SetOrKeepSerializer(slot_changes.base_fee)

SetOrKeepDeserializer(bytes) ==
    IF bytes = << >> THEN ParseError
    ELSE IF bytes[1] = 0 THEN Parsed(Keep, Tail(bytes))
    ELSE IF bytes[1] = 1
         THEN LET v == VarIntDeserializer(0, VarIntMax, Tail(bytes))
              IN  IF v.ok THEN Parsed(Set(v.value), v.rest) ELSE ParseError
    ELSE ParseError

RECURSIVE CallsDeserializer(_, _, _)
CallsDeserializer(n, bytes, calls) ==
    IF n = 0 THEN Parsed(calls, bytes)
    ELSE LET id == VarIntDeserializer(0, VarIntMax, bytes)
         IN  IF ~id.ok \/ id.rest = << >> THEN ParseError
             ELSE IF id.rest[1] = 1
                  THEN LET call == VarIntDeserializer(0, VarIntMax, Tail(id.rest))
                       IN  IF ~call.ok THEN ParseError
                           ELSE CallsDeserializer(n - 1, call.rest,
                                                  MapPut(calls, id.value, Set(call.value)))
             ELSE IF id.rest[1] = 2
                  THEN CallsDeserializer(n - 1, Tail(id.rest),
                                         MapPut(calls, id.value, Delete))
             ELSE ParseError

SlotChangesDeserializer(bytes) ==
    LET len == VarIntDeserializer(0, max_pool_changes, bytes)
    IN  IF ~len.ok THEN ParseError
        ELSE LET calls == CallsDeserializer(len.value, len.rest, EmptyMap)
             IN  IF ~calls.ok THEN ParseError
                 ELSE LET gas == SetOrKeepDeserializer(calls.rest)
                      IN  IF ~gas.ok THEN ParseError
                          ELSE LET fee == SetOrKeepDeserializer(gas.rest)
                               IN  IF ~fee.ok THEN ParseError
                                   ELSE Parsed([calls |-> calls.value,
                                                effective_slot_gas |-> gas.value,
                                                base_fee |-> fee.value], fee.rest)

\* The (slot, changes) pairs of the map in slot order, serialized.
RECURSIVE SlotsChangeSerializer(_, _)
SlotsChangeSerializer(slots_change, slots) ==
    IF slots = << >> THEN << >>
    ELSE SlotSerializer(Head(slots))
         \o SlotChangesSerializer(slots_change[Head(slots)])
         \o SlotsChangeSerializer(slots_change, Tail(slots))

\* Serializer<DeferredCallRegistryChanges>::serialize: the number of slots,
\* every slot with its changes in map order, then effective_total_gas when it
\* is Set; nothing is written for Keep.
DeferredRegistryChangesSerializer(value) ==
    VarIntSerializer(Cardinality(DOMAIN value.slots_change))
    \o SlotsChangeSerializer(value.slots_change, SlotsInOrder(DOMAIN value.slots_change))
    \o (IF value.effective_total_gas.tag = "Set"
        THEN VarIntSerializer(value.effective_total_gas.value)
        ELSE << >>)

\* length_count's loop: count times a slot, then its changes; collected into
\* a BTreeMap, a slot met again replacing its earlier entry.
RECURSIVE SlotsChangeDeserializer(_, _, _)
SlotsChangeDeserializer(count, bytes, slots_change) ==
    IF count = 0 THEN Parsed(slots_change, bytes)
    ELSE LET slot == SlotDeserializer(thread_count, bytes)
         IN  IF ~slot.ok THEN Failed("Failed slot deserialization")
             ELSE LET c == SlotChangesDeserializer(slot.rest)
                  IN  IF ~c.ok
                      THEN Failed("Failed set_update_or_delete_message deserialization")
                      ELSE SlotsChangeDeserializer(count - 1, c.rest,
                                                   MapPut(slots_change, slot.value, c.value))

\* Deserializer<DeferredCallRegistryChanges>::deserialize: the length within
\* [0, max_pool_changes], that many (slot, changes), then the total gas,
\* always read and returned as Set.
DeferredRegistryChangesDeserializer(bytes) ==
    LET len == VarIntDeserializer(0, max_pool_changes, bytes)
    IN  IF ~len.ok THEN Failed("Failed length deserialization")
        ELSE LET slots == SlotsChangeDeserializer(len.value, len.rest, EmptyMap)
             IN  IF ~slots.ok THEN slots
                 ELSE LET total_gas == VarIntDeserializer(0, VarIntMax, slots.rest)
                      IN  IF ~total_gas.ok THEN Failed("Failed total_gas deserialization")
                          ELSE Parsed([slots_change |-> slots.value,
                                       effective_total_gas |-> Set(total_gas.value)],
                                      total_gas.rest)

\* -------------------------- SpecRegistryCodec: serialize, then deserialize
\* One DeferredCallRegistryChanges is serialized and the bytes are handed to
\* the deserializer.

\* DeferredRegistrySlotChanges::default()
DeferredRegistrySlotChanges_default ==
    [calls |-> EmptyMap, effective_slot_gas |-> Keep, base_fee |-> Keep]

\* The changes of a slot: every call id absent, Set or Delete; the gas Keep
\* or a value of two varint bytes; the base fee Keep or Set.
CallIds == 1..MaxCalls
CallsValues == UNION {[ids -> {Set(3), Delete}] : ids \in SUBSET CallIds}
SlotChangesValues ==
    [calls : CallsValues, effective_slot_gas : {Keep, Set(200)}, base_fee : {Keep, Set(1)}]

\* The first max_pool_changes + 1 slots.
RegistrySlots ==
    {slot \in [period : 0..max_pool_changes, thread : 0..(thread_count - 1)] :
        slot.period * thread_count + slot.thread <= max_pool_changes}

\* DeferredRegistryGasChange<u128>: Keep, or Set of a value of one or two
\* varint bytes.
TotalGasValues == {Keep, Set(0), Set(300)}

\* The values with at most max_pool_changes slots, and those with one slot
\* more, each of its slots with the default changes.
RegistryChangesValues ==
    UNION {[slots_change : [slots -> SlotChangesValues],
            effective_total_gas : TotalGasValues] :
              slots \in {S \in SUBSET RegistrySlots : Cardinality(S) <= max_pool_changes}}
    \cup [slots_change : {[slot \in RegistrySlots |-> DeferredRegistrySlotChanges_default]},
          effective_total_gas : TotalGasValues]

InitRegistryCodec ==
    /\ ConstInit
    /\ NoWorker /\ NoFinalState /\ NoMock
    /\ live = {}
    /\ changes \in RegistryChangesValues
    /\ buffer = << >>
    /\ deserialized = ParseError
    /\ codec_pc = "serialize"
    /\ header = << >>
    /\ reserialized = << >>
    /\ NoOps

\* serializer.serialize(&changes, &mut buffer)
RegistrySerialize ==
    /\ UNCHANGED nonCodecVars
    /\ codec_pc = "serialize"
    /\ buffer' = DeferredRegistryChangesSerializer(changes)
    /\ codec_pc' = "deserialize"
    /\ UNCHANGED <<changes, deserialized, header, reserialized, opsVars>>

\* deserializer.deserialize(&buffer)
RegistryDeserialize ==
    /\ UNCHANGED nonCodecVars
    /\ codec_pc = "deserialize"
    /\ deserialized' = DeferredRegistryChangesDeserializer(buffer)
    /\ codec_pc' = "done"
    /\ UNCHANGED <<changes, buffer, header, reserialized, opsVars>>

\* serializer.serialize(&deserialized, ..) on the value a decode returned
RegistryReserialize ==
    /\ UNCHANGED nonCodecVars
    /\ codec_pc = "done"
    /\ deserialized.ok
    /\ reserialized' = DeferredRegistryChangesSerializer(deserialized.value)
    /\ codec_pc' = "reserialized"
    /\ UNCHANGED <<changes, buffer, deserialized, header, opsVars>>

NextRegistryCodec ==
    \/ RegistrySerialize
    \/ RegistryDeserialize

SpecRegistryCodec == InitRegistryCodec /\ [][NextRegistryCodec]_vars

\* ------------------------- SpecRegistryBytes: deserialize, then serialize
\* A byte string from the wire is handed to the deserializer and the value it
\* returns, if any, is serialized again.

\* The changes of a slot met on the wire: none, or a call and the slot gas.
WireSlotChanges ==
    {DeferredRegistrySlotChanges_default,
     [calls |-> [id \in {1} |-> Set(3)], effective_slot_gas |-> Set(200), base_fee |-> Keep]}

\* Up to max_pool_changes (slot, changes) in any order, a slot listed once or
\* more.
WireSlotLists ==
    UNION {[1..n -> RegistrySlots \X WireSlotChanges] : n \in 0..max_pool_changes}

\* The encoding of such a list: the length, the pairs as listed, the total gas.
WireRegistryChanges(list, total_gas) ==
    VarIntSerializer(Len(list))
    \o Flatten([i \in DOMAIN list |->
                    SlotSerializer(list[i][1]) \o SlotChangesSerializer(list[i][2])])
    \o VarIntSerializer(total_gas)

Prefixes(bytes) == {SubSeq(bytes, 1, n) : n \in 0..Len(bytes)}

\* Whole encodings, every prefix of one, and encodings followed by one byte.
RegistryBuffers ==
    LET whole == {WireRegistryChanges(list, total_gas) :
                      list \in WireSlotLists, total_gas \in {0, 300}}
    IN  UNION {Prefixes(b) : b \in whole} \cup {b \o <<0>> : b \in whole}

InitRegistryBytes ==
    /\ ConstInit
    /\ NoWorker /\ NoFinalState /\ NoMock
    /\ live = {}
    /\ changes = << >>
    /\ buffer \in RegistryBuffers
    /\ deserialized = ParseError
    /\ codec_pc = "deserialize"
    /\ header = << >>
    /\ reserialized = << >>
    /\ NoOps

NextRegistryBytes ==
    \/ RegistryDeserialize
    \/ RegistryReserialize

SpecRegistryBytes == InitRegistryBytes /\ [][NextRegistryBytes]_vars

\* ------------- SpecRegistryOps: the methods of DeferredCallRegistryChanges
\* One DeferredCallRegistryChanges, default at first, is written and read
\* through its methods in any order and then serialized.

\* DeferredCall: a call is the opaque value the codec writes; its target_slot
\* field is read off the value, two calls for each slot.
RegistryCalls == 0..(2 * Cardinality(RegistrySlots) - 1)
DeferredCall_target_slot(call) ==
    CHOOSE slot \in RegistrySlots :
        slot.period * thread_count + slot.thread = call % Cardinality(RegistrySlots)

\* DeferredRegistrySlotChanges: set_call and delete_call insert Set(call) and
\* Delete under the id; get_call returns the call of a Set entry; the gas and
\* the base fee are Set by their setters and returned by their getters when
\* Set.
SlotChanges_set_call(slot_changes, id, call) ==
    [slot_changes EXCEPT !.calls = MapPut(@, id, Set(call))]
SlotChanges_delete_call(slot_changes, id) ==
    [slot_changes EXCEPT !.calls = MapPut(@, id, Delete)]
SlotChanges_get_call(slot_changes, id) ==
    IF id \in DOMAIN slot_changes.calls /\ slot_changes.calls[id].tag = "Set"
    THEN Some(slot_changes.calls[id].value)
    ELSE None
SlotChanges_set_effective_slot_gas(slot_changes, gas) ==
    [slot_changes EXCEPT !.effective_slot_gas = Set(gas)]
SlotChanges_set_base_fee(slot_changes, base_fee) ==
    [slot_changes EXCEPT !.base_fee = Set(base_fee)]
SetOrKeep_get(setter) == IF setter.tag = "Set" THEN Some(setter.value) ELSE None

\* self.slots_change.entry(target_slot).or_default(): the map with the record
\* of the slot, the default one inserted if the slot was absent.
entry_or_default(slots_change, target_slot) ==
    IF target_slot \in DOMAIN slots_change THEN slots_change
    ELSE MapPut(slots_change, target_slot, DeferredRegistrySlotChanges_default)

\* DeferredCallRegistryChanges::default()
DeferredCallRegistryChanges_default ==
    [slots_change |-> EmptyMap, effective_total_gas |-> Keep]

\* Mutant of delete_call: the record of an absent slot is not created.
delete_call_existing_only(self, target_slot, id) ==
    IF target_slot \in DOMAIN self.slots_change
    THEN [self EXCEPT !.slots_change[target_slot] = SlotChanges_delete_call(@, id)]
    ELSE self

\* DeferredCallRegistryChanges::delete_call
delete_call(self, target_slot, id) ==
    LET entry == entry_or_default(self.slots_change, target_slot)
    IN  [self EXCEPT !.slots_change =
            [entry EXCEPT ![target_slot] = SlotChanges_delete_call(@, id)]]

\* Mutant of set_call: the call goes to the record of the first slot.
set_call_first_slot(self, id, call) ==
    LET target_slot == Slot(0, 0)
        entry == entry_or_default(self.slots_change, target_slot)
    IN  [self EXCEPT !.slots_change =
            [entry EXCEPT ![target_slot] = SlotChanges_set_call(@, id, call)]]

\* DeferredCallRegistryChanges::set_call
set_call(self, id, call) ==
    LET target_slot == DeferredCall_target_slot(call)
        entry == entry_or_default(self.slots_change, target_slot)
    IN  [self EXCEPT !.slots_change =
            [entry EXCEPT ![target_slot] = SlotChanges_set_call(@, id, call)]]

\* DeferredCallRegistryChanges::get_call
get_call(self, target_slot, id) ==
    IF target_slot \in DOMAIN self.slots_change
    THEN SlotChanges_get_call(self.slots_change[target_slot], id)
    ELSE None

\* DeferredCallRegistryChanges::get_effective_slot_gas
get_effective_slot_gas(self, target_slot) ==
    IF target_slot \in DOMAIN self.slots_change
    THEN SetOrKeep_get(self.slots_change[target_slot].effective_slot_gas)
    ELSE None

\* DeferredCallRegistryChanges::set_effective_slot_gas
set_effective_slot_gas(self, target_slot, gas) ==
    LET entry == entry_or_default(self.slots_change, target_slot)
    IN  [self EXCEPT !.slots_change =
            [entry EXCEPT ![target_slot] = SlotChanges_set_effective_slot_gas(@, gas)]]

\* DeferredCallRegistryChanges::set_slot_base_fee
set_slot_base_fee(self, target_slot, base_fee) ==
    LET entry == entry_or_default(self.slots_change, target_slot)
    IN  [self EXCEPT !.slots_change =
            [entry EXCEPT ![target_slot] = SlotChanges_set_base_fee(@, base_fee)]]

\* DeferredCallRegistryChanges::get_slot_base_fee
get_slot_base_fee(self, target_slot) ==
    IF target_slot \in DOMAIN self.slots_change
    THEN SetOrKeep_get(self.slots_change[target_slot].base_fee)
    ELSE None

\* Mutant of set_effective_total_gas: a gas of 0 is kept as Keep.
set_effective_total_gas_zero_keeps(self, gas) ==
    [self EXCEPT !.effective_total_gas = IF gas = 0 THEN Keep ELSE Set(gas)]

\* DeferredCallRegistryChanges::set_effective_total_gas
set_effective_total_gas(self, gas) == [self EXCEPT !.effective_total_gas = Set(gas)]

\* DeferredCallRegistryChanges::get_effective_total_gas
get_effective_total_gas(self) ==
    IF self.effective_total_gas.tag = "Set" THEN Some(self.effective_total_gas.value)
    ELSE None

InitRegistryOps ==
    /\ ConstInit
    /\ NoWorker /\ NoFinalState /\ NoMock
    /\ live = {}
    /\ changes = DeferredCallRegistryChanges_default
    /\ buffer = << >>
    /\ deserialized = ParseError
    /\ codec_pc = "serialize"
    /\ header = << >>
    /\ reserialized = << >>
    /\ NoOps

\* A write is made on changes, which was not serialized yet.
Write(after) ==
    /\ codec_pc = "serialize"
    /\ write_count < MaxWrites
    /\ changes' = after
    /\ write_count' = write_count + 1
    /\ UNCHANGED <<buffer, deserialized, codec_pc, header, reserialized, got>>
    /\ UNCHANGED nonCodecVars

\* A getter is called on changes.
Read(method, target_slot, id, result) ==
    /\ codec_pc = "serialize"
    /\ got' = Some([method |-> method, target_slot |-> target_slot, id |-> id,
                    result |-> result])
    /\ UNCHANGED <<changes, buffer, deserialized, codec_pc, header, reserialized,
                   last_write, write_count>>
    /\ UNCHANGED nonCodecVars

\* changes.set_call(id, call)
SetCall(id, call) ==
    /\ Write(set_call(changes, id, call))
    /\ last_write' = [last_write EXCEPT !.calls =
                         MapPut(@, <<DeferredCall_target_slot(call), id>>, Set(call))]

\* changes.delete_call(target_slot, &id)
DeleteCall(target_slot, id) ==
    /\ Write(delete_call(changes, target_slot, id))
    /\ last_write' = [last_write EXCEPT !.calls = MapPut(@, <<target_slot, id>>, Delete)]

\* changes.set_effective_slot_gas(target_slot, gas)
SetEffectiveSlotGas(target_slot, gas) ==
    /\ Write(set_effective_slot_gas(changes, target_slot, gas))
    /\ UNCHANGED last_write

\* changes.set_slot_base_fee(target_slot, base_fee)
SetSlotBaseFee(target_slot, base_fee) ==
    /\ Write(set_slot_base_fee(changes, target_slot, base_fee))
    /\ UNCHANGED last_write

\* changes.set_effective_total_gas(gas)
SetEffectiveTotalGas(gas) ==
    /\ Write(set_effective_total_gas(changes, gas))
    /\ last_write' = [last_write EXCEPT !.total_gas = Some(gas)]

\* changes.get_call(&target_slot, &id)
GetCall(target_slot, id) ==
    Read("get_call", target_slot, id, get_call(changes, target_slot, id))

\* changes.get_effective_slot_gas(&target_slot)
GetEffectiveSlotGas(target_slot) ==
    Read("get_effective_slot_gas", target_slot, 0, get_effective_slot_gas(changes, target_slot))

\* changes.get_slot_base_fee(&target_slot)
GetSlotBaseFee(target_slot) ==
    Read("get_slot_base_fee", target_slot, 0, get_slot_base_fee(changes, target_slot))

\* changes.get_effective_total_gas()
GetEffectiveTotalGas ==
    Read("get_effective_total_gas", Slot(0, 0), 0, get_effective_total_gas(changes))

NextRegistryOps ==
    \/ \E id \in CallIds, call \in RegistryCalls : SetCall(id, call)
    \/ \E target_slot \in RegistrySlots, id \in CallIds : DeleteCall(target_slot, id)
    \/ \E target_slot \in RegistrySlots : SetEffectiveSlotGas(target_slot, 200)
    \/ \E target_slot \in RegistrySlots : SetSlotBaseFee(target_slot, 1)
    \/ \E gas \in {0, 300} : SetEffectiveTotalGas(gas)
    \/ \E target_slot \in RegistrySlots, id \in CallIds : GetCall(target_slot, id)
    \/ \E target_slot \in RegistrySlots : GetEffectiveSlotGas(target_slot)
    \/ \E target_slot \in RegistrySlots : GetSlotBaseFee(target_slot)
    \/ GetEffectiveTotalGas
    \/ RegistrySerialize

SpecRegistryOps == InitRegistryOps /\ [][NextRegistryOps]_vars

\* ------------------------------------------------------------ block header
\* BlockHeaderDeserializer::new(thread_count, endorsement_count): the cap of
\* the endorsements of a header (ENDORSEMENT_COUNT) and the bytes of a hash
\* (HASH_SIZE_BYTES), both scaled to the model.
endorsement_count == 2
HashSize == 2

\* A Hash, and so a BlockId, is HashSize bytes.
HashOf(b) == [i \in 1..HashSize |-> b]

\* HashDeserializer: the next HashSize bytes.
HashDeserializer(bytes) ==
    IF Len(bytes) < HashSize THEN ParseError
    ELSE Parsed(SubSeq(bytes, 1, HashSize), SubSeq(bytes, HashSize + 1, Len(bytes)))

\* SecureShareSerializer::serialize_with(EndorsementSerializerLW): a secured
\* endorsement in its light form (secure_share.rs and endorsement.rs are not
\* part of the sources at hand): the signature and the creator's public key,
\* one opaque byte each, then the index; the slot and the endorsed block are
\* left to the header.
EndorsementSerializerLW(endorsement) ==
    <<endorsement.signature, endorsement.content_creator_pub_key>>
    \o VarIntSerializer(endorsement.content.index)

\* SecureShareDeserializer(EndorsementDeserializerLW::new(endorsement_count,
\* slot, endorsed_block)): the index within [0, endorsement_count), the slot
\* and the endorsed block as given.
EndorsementDeserializerLW(count, slot, endorsed_block, bytes) ==
    IF Len(bytes) < 2 THEN ParseError
    ELSE LET index == VarIntDeserializer(0, count - 1, SubSeq(bytes, 3, Len(bytes)))
         IN  IF ~index.ok THEN ParseError
             ELSE Parsed([signature |-> bytes[1],
                          content_creator_pub_key |-> bytes[2],
                          content |-> [slot |-> slot, index |-> index.value,
                                       endorsed_block |-> endorsed_block]],
                         index.rest)

\* Serializer<BlockHeader>::serialize: the two versions, the slot, the parent
\* flag and the parents, the merkle root, the number of endorsements and the
\* endorsements in their light form.
BlockHeaderSerializer(value) ==
    VarIntSerializer(value.block_version_current)
    \o VarIntSerializer(value.block_version_next)
    \o SlotSerializer(value.slot)
    \o (IF value.parents = << >> THEN <<0>> ELSE <<1>>)
    \o Flatten(value.parents)
    \o value.operation_merkle_root
    \o VarIntSerializer(Len(value.endorsements))
    \o Flatten([i \in DOMAIN value.endorsements |->
                    EndorsementSerializerLW(value.endorsements[i])])

\* context(label, parser): an error carries the innermost label.
Context(label, r) == IF r.ok \/ r.context # "none" THEN r ELSE Failed(label)

\* count(hash_deserializer, n)
RECURSIVE ParentsDeserializer(_, _, _)
ParentsDeserializer(n, bytes, parents) ==
    IF n = 0 THEN Parsed(parents, bytes)
    ELSE CHOOSE out \in
             {IF h.ok
              THEN ParentsDeserializer(n - 1, h.rest, Append(parents, h.value))
              ELSE h :
                  h \in {Context("Failed block_id deserialization",
                                 HashDeserializer(bytes))}} : TRUE

\* alt((tag([0]) -> no parents, preceded(tag([1]), count(hash, thread_count))))
ParentsAltDeserializer(bytes) ==
    IF bytes = << >> THEN ParseError
    ELSE IF bytes[1] = 0 THEN Parsed(<< >>, Tail(bytes))
    ELSE IF bytes[1] = 1 THEN ParentsDeserializer(thread_count, Tail(bytes), << >>)
    ELSE ParseError

\* length_count's loop over the endorsements.
RECURSIVE EndorsementsDeserializer(_, _, _, _, _)
EndorsementsDeserializer(n, slot, endorsed_block, bytes, decoded) ==
    IF n = 0 THEN Parsed(decoded, bytes)
    ELSE CHOOSE out \in
             {IF e.ok
              THEN EndorsementsDeserializer(n - 1, slot, endorsed_block, e.rest,
                                            Append(decoded, e.value))
              ELSE e :
                  e \in {Context("Failed endorsement deserialization",
                                 EndorsementDeserializerLW(endorsement_count, slot,
                                                           endorsed_block, bytes))}} : TRUE

\* The header before any field is decoded.
BlockHeader_empty ==
    [block_version_current |-> 0, block_version_next |-> 0, slot |-> Slot(0, 0),
     parents |-> << >>, operation_merkle_root |-> << >>, endorsements |-> << >>]

\* The fields of the tuple in wire order.
HeaderTupleFields ==
    <<"block_version_current", "block_version_next", "slot", "parents",
      "operation_merkle_root">>

\* The i-th parser of the tuple on the bytes the parsers before it left; both
\* versions go through length_endorsements_deserializer.
HeaderTupleParser(i, bytes) ==
    CASE i = 1 -> Context("Failed current version deserialization",
                          VarIntDeserializer(0, endorsement_count, bytes))
      [] i = 2 -> Context("Failed next version deserialization",
                          VarIntDeserializer(0, endorsement_count, bytes))
      [] i = 3 -> Context("Failed slot deserialization",
                          SlotDeserializer(thread_count, bytes))
      [] i = 4 -> Context("Failed parents deserialization",
                          ParentsAltDeserializer(bytes))
      [] i = 5 -> Context("Failed operation_merkle_root", HashDeserializer(bytes))

\* One field of the tuple, decoded after the fields of st.
HeaderTupleField(i, st) ==
    LET r == HeaderTupleParser(i, st.rest)
    IN  IF r.ok
        THEN Parsed([st.value EXCEPT ![HeaderTupleFields[i]] = r.value], r.rest)
        ELSE r

\* tuple((..)): the first i fields, each parser on the rest of the one before.
RECURSIVE HeaderTuple(_, _)
HeaderTuple(i, bytes) ==
    IF i = 0 THEN Parsed(BlockHeader_empty, bytes)
    ELSE CHOOSE out \in
             {IF st.ok THEN HeaderTupleField(i, st) ELSE st :
                  st \in {HeaderTuple(i - 1, bytes)}} : TRUE

\* Mutant of HeaderEndorsementsDeserializer: the endorsed block is the first
\* parent.
HeaderEndorsementsDeserializer_first_parent(p) ==
    LET len == Context("Failed length deserialization",
                       VarIntDeserializer(0, endorsement_count, p.rest))
    IN  IF ~len.ok THEN len
        ELSE LET e == EndorsementsDeserializer(
                          len.value, p.value.slot, p.value.parents[1], len.rest, << >>)
             IN  IF ~e.ok THEN e
                 ELSE Parsed([p.value EXCEPT !.endorsements = e.value], e.rest)

\* length_count(length within [0, endorsement_count], endorsement) after a
\* header with parents.
HeaderEndorsementsDeserializer(p) ==
    LET len == Context("Failed length deserialization",
                       VarIntDeserializer(0, endorsement_count, p.rest))
    IN  IF ~len.ok THEN len
        ELSE LET e == EndorsementsDeserializer(
                          len.value, p.value.slot,
                          p.value.parents[p.value.slot.thread + 1], len.rest, << >>)
             IN  IF ~e.ok THEN e
                 ELSE Parsed([p.value EXCEPT !.endorsements = e.value], e.rest)

\* Mutant of the deserializer: without parents nothing is skipped.
BlockHeaderDeserializer_keeps_byte(bytes) ==
    CHOOSE out \in
        {IF ~p.ok THEN p
         ELSE IF p.value.parents = << >> THEN Parsed(p.value, p.rest)
         ELSE HeaderEndorsementsDeserializer(p) :
             p \in {HeaderTuple(Len(HeaderTupleFields), bytes)}} : TRUE

\* Deserializer<BlockHeader>::deserialize: the tuple up to the merkle root.
\* Without parents the next byte is skipped unread (&rest[1..], out of bounds
\* on an empty rest) and the header returned without endorsements; with
\* parents the length and that many endorsements follow.
BlockHeaderDeserializer(bytes) ==
    CHOOSE out \in
        {IF ~p.ok THEN p
         ELSE IF p.value.parents = << >>
              THEN IF p.rest = << >> THEN Panic ELSE Parsed(p.value, Tail(p.rest))
         ELSE HeaderEndorsementsDeserializer(p) :
             p \in {HeaderTuple(Len(HeaderTupleFields), bytes)}} : TRUE

\* ------------------------------------------------ header codec, end to end
\* A header is serialized and the bytes are handed to the deserializer.

\* A secured endorsement of the header: opaque signature and public key, the
\* index, and the slot and endorsed block the header fixes.
SecureShareEndorsement(index, slot, endorsed_block) ==
    [signature |-> 7, content_creator_pub_key |-> 9,
     content |-> [slot |-> slot, index |-> index, endorsed_block |-> endorsed_block]]

\* Versions within and beyond the range of length_endorsements_deserializer.
HeaderVersions == {0, endorsement_count, endorsement_count + 1}
HeaderSlots == {Slot(0, 0), Slot(1, thread_count - 1)}
HeaderParents == {<< >>, [i \in 1..thread_count |-> HashOf(i)]}

\* Up to one endorsement more than the decoder's cap.
HeaderIndexes ==
    UNION {[1..n -> 0..(endorsement_count - 1)] : n \in 0..(endorsement_count + 1)}

HeaderValues ==
    {[block_version_current |-> cur,
      block_version_next |-> next,
      slot |-> slot,
      parents |-> parents,
      operation_merkle_root |-> HashOf(3),
      endorsements |->
          [i \in DOMAIN indexes |->
              SecureShareEndorsement(
                  indexes[i], slot,
                  IF parents = << >> THEN HashOf(0) ELSE parents[slot.thread + 1])]] :
        cur \in HeaderVersions, next \in HeaderVersions, slot \in HeaderSlots,
        parents \in HeaderParents, indexes \in HeaderIndexes}

InitHeaderCodec ==
    /\ ConstInit /\ NoWorker /\ NoFinalState /\ NoMock
    /\ live = {}
    /\ changes = << >>
    /\ header \in HeaderValues
    /\ buffer = << >>
    /\ deserialized = ParseError
    /\ codec_pc = "serialize_header"
    /\ reserialized = << >>
    /\ NoOps

HeaderSerialize ==
    /\ UNCHANGED nonCodecVars
    /\ codec_pc = "serialize_header"
    /\ buffer' = BlockHeaderSerializer(header)
    /\ codec_pc' = "deserialize_header"
    /\ UNCHANGED <<changes, deserialized, header, reserialized, opsVars>>

HeaderDeserialize ==
    /\ UNCHANGED nonCodecVars
    /\ codec_pc = "deserialize_header"
    /\ deserialized' = BlockHeaderDeserializer(buffer)
    /\ codec_pc' = "done_header"
    /\ UNCHANGED <<changes, buffer, header, reserialized, opsVars>>

\* BlockHeaderSerializer::serialize(&deserialized_header, &mut buffer2)
HeaderReserialize ==
    /\ UNCHANGED nonCodecVars
    /\ codec_pc = "done_header"
    /\ deserialized.ok
    /\ reserialized' = BlockHeaderSerializer(deserialized.value)
    /\ codec_pc' = "reserialized_header"
    /\ UNCHANGED <<changes, buffer, deserialized, header, opsVars>>

NextHeaderCodec ==
    \/ HeaderSerialize
    \/ HeaderDeserialize
    \/ HeaderReserialize

SpecHeaderCodec == InitHeaderCodec /\ [][NextHeaderCodec]_vars

\* Both length-prefixed codecs side by side.
InitCodec == InitRegistryCodec \/ InitHeaderCodec

NextCodec ==
    \/ NextRegistryCodec
    \/ NextHeaderCodec

SpecCodec == InitCodec /\ [][NextCodec]_vars

\* --------------------------- SpecHeaderBytes: deserialize, then serialize
\* A byte string from the wire is handed to the header deserializer and the
\* header it returns, if any, is serialized again.

\* Whole encodings, every prefix of one, and encodings followed by one byte.
HeaderBuffers ==
    LET whole == {BlockHeaderSerializer(h) : h \in HeaderValues}
    IN  UNION {Prefixes(b) : b \in whole} \cup {b \o <<0>> : b \in whole}

InitHeaderBytes ==
    /\ ConstInit /\ NoWorker /\ NoFinalState /\ NoMock
    /\ live = {}
    /\ changes = << >>
    /\ header = << >>
    /\ buffer \in HeaderBuffers
    /\ deserialized = ParseError
    /\ codec_pc = "deserialize_header"
    /\ reserialized = << >>
    /\ NoOps

NextHeaderBytes ==
    \/ HeaderDeserialize
    \/ HeaderReserialize

SpecHeaderBytes == InitHeaderBytes /\ [][NextHeaderBytes]_vars

\* Both decoders on byte strings from the wire.
InitBytes == InitRegistryBytes \/ InitHeaderBytes

NextBytes ==
    \/ NextRegistryBytes
    \/ NextHeaderBytes

SpecBytes == InitBytes /\ [][NextBytes]_vars

\* ------------------------------------------------ assert_eq_final_state
\* A column family of the database is a map from keys to values that an
\* iterator walks in key order. Keys are ordered values, here numbers.

\* The reserved key of METADATA_CF under which the hash of the state is kept.
STATE_HASH_KEY == 2

StateKeys == 1..MaxDbKeys
MetadataKeys == {1, STATE_HASH_KEY}
DbValues == {0, 1}

\* db.iterator_cf(cf, MassaIteratorMode::Start): the (key, value) pairs in
\* key order.
iterator_cf(cf) ==
    LET keys == IdsInOrder(DOMAIN cf)
    IN  [i \in DOMAIN keys |-> <<keys[i], cf[keys[i]]>>]

\* a.zip(b): as long as the shorter of the two.
ZipLen(a, b) == IF Len(a) <= Len(b) THEN Len(a) ELSE Len(b)

\* assert_eq_final_state(v1, v2): the message of the first assertion that
\* fails, or "passed". The counts of STATE_CF are compared; both column
\* families are then walked in pairs, as far as the shorter one goes, the
\* value under STATE_HASH_KEY left out.
assert_eq_final_state(a, b) ==
    LET state1 == iterator_cf(a.state_cf)
        state2 == iterator_cf(b.state_cf)
        metadata1 == iterator_cf(a.metadata_cf)
        metadata2 == iterator_cf(b.metadata_cf)
        state_bad == {i \in 1..ZipLen(state1, state2) : state1[i] # state2[i]}
        metadata_bad == {i \in 1..ZipLen(metadata1, metadata2) :
                            \/ metadata1[i][1] # metadata2[i][1]
                            \/ /\ metadata1[i][1] # STATE_HASH_KEY
                               /\ metadata1[i][2] # metadata2[i][2]}
        first_state == CHOOSE i \in state_bad : \A j \in state_bad : i <= j
        first_metadata == CHOOSE i \in metadata_bad : \A j \in metadata_bad : i <= j
    IN  IF a.change_id # b.change_id THEN "final slot mismatch"
        ELSE IF a.last_start_period # b.last_start_period
             THEN "last_start_period mismatch"
        ELSE IF a.last_slot_before_downtime # b.last_slot_before_downtime
             THEN "last_slot_before_downtime mismatch"
        ELSE IF Len(state1) # Len(state2) THEN "state count mismatch"
        ELSE IF state_bad # {}
             THEN IF state1[first_state][1] # state2[first_state][1]
                  THEN "state key mismatch"
                  ELSE "state value mismatch"
        ELSE IF metadata_bad # {}
             THEN IF metadata1[first_metadata][1] # metadata2[first_metadata][1]
                  THEN "metadata key mismatch"
                  ELSE "metadata value mismatch"
        ELSE IF a.cycle_history_cache # b.cycle_history_cache
             THEN "pos_state.cycle_history_cache mismatch"
        ELSE IF a.rng_seed_cache # b.rng_seed_cache
             THEN "pos_state.rng_seed_cache mismatch"
        ELSE IF Len(a.message_info_cache) # Len(b.message_info_cache)
             THEN "async_pool.message_info_cache len mismatch"
        ELSE IF a.message_info_cache # b.message_info_cache
             THEN "async_pool.message_info_cache mismatch"
        ELSE "passed"

\* Column families over the given keys.
ColumnFamilies(keys) == UNION {[ks -> DbValues] : ks \in SUBSET keys}

\* FinalState as assert_eq_final_state reads it.
FinalStateValues(change_ids, periods) ==
    [change_id : change_ids,
     last_start_period : periods,
     last_slot_before_downtime : {None},
     state_cf : ColumnFamilies(StateKeys),
     metadata_cf : ColumnFamilies(MetadataKeys),
     cycle_history_cache : {<< >>},
     rng_seed_cache : {None},
     message_info_cache : {<< >>}]

InitFinalState ==
    /\ ConstInit /\ NoCodec /\ NoWorker /\ NoMock
    /\ live = {}
    /\ v1 \in FinalStateValues({0}, {0})
    /\ v2 \in FinalStateValues({0, 1}, {0, 1})
    /\ assert_outcome = "none"

\* assert_eq_final_state(&v1, &v2)
AssertEqFinalState ==
    /\ UNCHANGED nonFinalStateVars
    /\ assert_outcome = "none"
    /\ assert_outcome' = assert_eq_final_state(v1, v2)
    /\ UNCHANGED <<v1, v2>>

NextFinalState == AssertEqFinalState

SpecFinalState == InitFinalState /\ [][NextFinalState]_vars

\* ---------------------------------------------- MockExecutionController
\* The mock sends one message per call through an mpsc Sender kept behind a
\* Mutex; the test holds the Receiver. Calls may come from several threads,
\* each call is one step.

\* The methods of ExecutionController that the mock implements.
MockMethods ==
    {"update_blockclique_status", "get_filtered_sc_output_event",
     "get_final_and_candidate_sequential_balances", "get_final_and_active_data_entry",
     "get_addresses_infos", "get_cycle_active_rolls", "execute_readonly_request",
     "unexecuted_ops_among"}

\* The methods that return a default value without a message.
MockSilentMethods ==
    {"get_final_and_active_data_entry", "get_addresses_infos", "get_cycle_active_rolls"}

\* The methods that unwrap the result of the send.
MockUnwrapSendMethods ==
    {"update_blockclique_status", "get_filtered_sc_output_event",
     "execute_readonly_request"}

\* The methods that print the error of the send and go on.
MockPrintSendMethods ==
    {"get_final_and_candidate_sequential_balances", "unexecuted_ops_among"}

\* The methods that read a response from the response channel of the message.
MockResponseMethods == MockMethods \ (MockSilentMethods \cup {"update_blockclique_status"})

\* What the holder of the Receiver does with the response_tx of a message: it
\* sends a value on it, or none (response_tx is dropped, or nothing is sent
\* before the wait of the call times out).
MockResponses == {None, Some(0), Some(1)}

\* Mutant of MockCall: a call that got no response returns a default value.
MockCall_default_on_timeout(method, receiver, poisoned, response) ==
    IF method \in MockSilentMethods
    THEN [method |-> method, send |-> "none", printed |-> FALSE, outcome |-> "returned",
          response |-> response, value |-> None]
    ELSE IF poisoned
    THEN [method |-> method, send |-> "none", printed |-> FALSE,
          outcome |-> "panicked at lock", response |-> response, value |-> None]
    ELSE IF ~receiver /\ method \in MockUnwrapSendMethods
    THEN [method |-> method, send |-> "failed", printed |-> FALSE,
          outcome |-> "panicked at send", response |-> response, value |-> None]
    ELSE LET send == IF receiver THEN "sent" ELSE "failed"
         IN  [method |-> method, send |-> send, printed |-> send = "failed",
              outcome |-> "returned",
              response |-> response,
              value |-> IF method \notin MockResponseMethods THEN None
                        ELSE IF send = "sent" /\ response # None THEN response
                        ELSE Some(0)]

\* One call of a method: what became of the send ("none", "sent", "failed"),
\* whether the error was printed, how the call ended and the value it
\* returned, if it returned one read from the response channel. response:
\* what the holder of the Receiver does with response_tx; the unwrap of recv
\* or recv_timeout panics when no value comes.
MockCall(method, receiver, poisoned, response) ==
    IF method \in MockSilentMethods
    THEN [method |-> method, send |-> "none", printed |-> FALSE, outcome |-> "returned",
          response |-> response, value |-> None]
    ELSE IF poisoned
    THEN [method |-> method, send |-> "none", printed |-> FALSE,
          outcome |-> "panicked at lock", response |-> response, value |-> None]
    ELSE IF ~receiver /\ method \in MockUnwrapSendMethods
    THEN [method |-> method, send |-> "failed", printed |-> FALSE,
          outcome |-> "panicked at send", response |-> response, value |-> None]
    ELSE LET send == IF receiver THEN "sent" ELSE "failed"
             answered == send = "sent" /\ response # None
         IN  [method |-> method, send |-> send, printed |-> send = "failed",
              outcome |-> IF method \notin MockResponseMethods THEN "returned"
                          ELSE IF answered THEN "returned"
                          ELSE "panicked at recv",
              response |-> response,
              value |-> IF method \in MockResponseMethods /\ answered
                        THEN response ELSE None]

\* MockExecutionController::new_with_receiver()
InitMock ==
    /\ ConstInit /\ NoCodec /\ NoWorker /\ NoFinalState
    /\ live = {}
    /\ mock_receiver = TRUE
    /\ mock_messages = << >>
    /\ mock_poisoned = FALSE
    /\ mock_calls = << >>
    /\ mock_log = << >>

\* A call of a method of the mock. A panic while the guard of the Mutex is
\* alive, the unwrap of the send, poisons the Mutex.
CallMock(method, response) ==
    /\ UNCHANGED nonMockVars
    /\ Len(mock_calls) < MaxMockCalls
    /\ LET call == MockCall(method, mock_receiver, mock_poisoned, response)
       IN  /\ mock_calls' = Append(mock_calls, call)
           /\ mock_messages' = IF call.send = "sent"
                               THEN Append(mock_messages,
                                           [method |-> method,
                                            call |-> Len(mock_calls) + 1])
                               ELSE mock_messages
           /\ mock_poisoned' = (mock_poisoned \/ call.outcome = "panicked at send")
           /\ mock_log' = IF call.printed THEN Append(mock_log, "mock error") ELSE mock_log
    /\ UNCHANGED mock_receiver

\* The test drops the Receiver, and with it the messages not yet received.
DropMockReceiver ==
    /\ UNCHANGED nonMockVars
    /\ mock_receiver
    /\ mock_receiver' = FALSE
    /\ mock_messages' = << >>
    /\ UNCHANGED <<mock_poisoned, mock_calls, mock_log>>

NextMock ==
    \/ \E method \in MockMethods, response \in MockResponses : CallMock(method, response)
    \/ DropMockReceiver

SpecMock == InitMock /\ [][NextMock]_vars

\* ================================================================ claims
\* The owner count of an id: its entry, or 0 without an entry.
Count(owners, id) == IF id \in DOMAIN owners THEN owners[id] ELSE 0

\* The live holders whose local set holds the id.
HoldersOf(local, id) == {h \in live : id \in local[h]}

\* The creators under which an index lists an id.
ListedUnder(index_by_creator, id) ==
    {a \in DOMAIN index_by_creator : id \in index_by_creator[a]}

\* C1: after any sequence of completed calls, for each of the three kinds an
\* id is in the primary map if and only if it has an owner count, and that
\* count is at least 1.
C1_PrimaryIffOwned ==
    /\ DOMAIN blocks.blocks = DOMAIN block_owners
    /\ DOMAIN operations.operations = DOMAIN operation_owners
    /\ DOMAIN endorsements.endorsements = DOMAIN endorsement_owners
    /\ \A id \in DOMAIN block_owners : block_owners[id] >= 1
    /\ \A id \in DOMAIN operation_owners : operation_owners[id] >= 1
    /\ \A id \in DOMAIN endorsement_owners : endorsement_owners[id] >= 1

\* C1 witness: a block with two owners is stored, an operation with one owner
\* is stored, and no endorsement is stored or counted.
C1_Witness ==
    /\ \E id \in DOMAIN blocks.blocks : Count(block_owners, id) = 2
    /\ \E id \in DOMAIN operations.operations : Count(operation_owners, id) = 1
    /\ DOMAIN endorsements.endorsements = {}
    /\ DOMAIN endorsement_owners = {}

\* C2: the owner count of every id is the number of live holders whose local
\* set holds it, and every id of a local set is in the primary map.
C2_CountIsHolders ==
    /\ \A id \in BlockIds :
          Count(block_owners, id) = Cardinality(HoldersOf(local_used_blocks, id))
    /\ \A id \in OperationIds :
          Count(operation_owners, id) = Cardinality(HoldersOf(local_used_ops, id))
    /\ \A id \in EndorsementIds :
          Count(endorsement_owners, id) = Cardinality(HoldersOf(local_used_endorsements, id))
    /\ \A h \in Holders :
          /\ local_used_blocks[h] \subseteq DOMAIN blocks.blocks
          /\ local_used_ops[h] \subseteq DOMAIN operations.operations
          /\ local_used_endorsements[h] \subseteq DOMAIN endorsements.endorsements

\* C2 witness: two live holders, a block both hold (count 2) and an
\* endorsement only one of them holds (count 1).
C2_Witness ==
    \E h1 \in live, h2 \in live :
        /\ h1 # h2
        /\ \E id \in local_used_blocks[h1] \cap local_used_blocks[h2] :
              Count(block_owners, id) = 2
        /\ \E id \in local_used_endorsements[h1] \ local_used_endorsements[h2] :
              Count(endorsement_owners, id) = 1

\* C3: a call that owns the owners' guard never requests the primary map's
\* guard, and a call owning both took the primary map's guard first.
C3_PrimaryBeforeOwners ==
    \A h \in Holders :
        /\ ~("block_owners" \in Guards(h) /\ "blocks" \in Requested(h))
        /\ held[h] # <<"block_owners", "blocks">>

\* C4: no two threads each wait for a guard the other owns.
C4_NoDeadlock ==
    ~ \E h1 \in Holders, h2 \in Holders :
        /\ h1 # h2
        /\ \E lock \in Requested(h1) : lock \in Guards(h2)
        /\ \E lock \in Requested(h2) : lock \in Guards(h1)

\* What a store of an id that is already in the primary map may do: the
\* stored payload and its index entry stay, the caller holds the id, and the
\* count grows by 1 exactly when the caller did not hold it.
StoredIdKept(id, held_before, held_after, owners0, owners1, primary0, primary1, idx1) ==
    /\ id \in DOMAIN primary1
    /\ primary1[id] = primary0[id]
    /\ ListedUnder(idx1, id) = {primary0[id].creator}
    /\ id \in held_after
    /\ Count(owners1, id) = Count(owners0, id) + (IF id \in held_before THEN 0 ELSE 1)

\* C5: in every reachable state, whatever live holder calls it with whatever
\* payload, a store of a payload whose id is already stored keeps the stored
\* payload (no replacement, no second index entry); the owner count is
\* unchanged if the caller held the id and grows by exactly 1, the id joining
\* the caller's local set, if it did not.
C5_StoreIdempotent ==
    ~panicked =>
        \A h \in live :
            /\ \A block \in BlockPayloads :
                  block.id \in DOMAIN blocks.blocks =>
                      LET r == store_block(block, blocks, block_owners, local_used_blocks[h])
                      IN  /\ r.store = blocks
                          /\ StoredIdKept(block.id, local_used_blocks[h], r.local_used_ids,
                                          block_owners, r.owners, blocks.blocks,
                                          r.store.blocks, r.store.index_by_creator)
            /\ \A vec \in SeqsUpTo(OperationPayloads, MaxVec) :
                  LET r == store_operations(vec, operations, operation_owners,
                                            local_used_ops[h])
                  IN  \A id \in IdsOf(vec) \cap DOMAIN operations.operations :
                          StoredIdKept(id, local_used_ops[h], r.local_used_ids,
                                       operation_owners, r.owners, operations.operations,
                                       r.store.operations, r.store.index_by_creator)
            /\ \A vec \in SeqsUpTo(EndorsementPayloads, MaxVec) :
                  LET r == store_endorsements(vec, endorsements, endorsement_owners,
                                              local_used_endorsements[h])
                  IN  \A id \in IdsOf(vec) \cap DOMAIN endorsements.endorsements :
                          StoredIdKept(id, local_used_endorsements[h], r.local_used_ids,
                                       endorsement_owners, r.owners,
                                       endorsements.endorsements,
                                       r.store.endorsements, r.store.index_by_creator)

\* C5 witness: an endorsement stored under one creator is held by one live
\* holder (count 1) while a second live holder does not hold it: a store of
\* that id by either holder, under any creator, is a store of a stored id.
C5_Witness ==
    \E h1 \in live, h2 \in live, id \in DOMAIN endorsements.endorsements :
        /\ id \in local_used_endorsements[h1]
        /\ id \notin local_used_endorsements[h2]
        /\ Count(endorsement_owners, id) = 1
        /\ \E a \in Addrs : a # endorsements.endorsements[id].creator

\* What claim_refs(ids) returning ret may do.
ClaimEffect(ids, ret, held_before, held_after, owners0, owners1, primary0) ==
    /\ ret = ids \cap DOMAIN primary0
    /\ \A id \in ret :
          /\ id \in held_after
          /\ Count(owners1, id) = Count(owners0, id) + (IF id \in held_before THEN 0 ELSE 1)
    /\ \A id \in ids \ ret :
          /\ id \notin held_after
          /\ id \notin DOMAIN owners1

\* C6: in every reachable state, for every live holder and every set of ids,
\* claim_refs(ids) returns exactly the requested ids that are in the
\* primary map; each returned id is in the caller's local set afterwards and
\* its count grows by 1 only if the caller did not hold it; an id that is not
\* stored is not returned, not added to the local set and gets no count.
C6_ClaimRefs ==
    ~panicked =>
        \A h \in live :
            /\ \A ids \in SUBSET BlockIds :
                  LET r == claim_block_refs(ids, block_owners, local_used_blocks[h])
                  IN  ClaimEffect(ids, r.claimed, local_used_blocks[h], r.local_used_ids,
                                  block_owners, r.owners, blocks.blocks)
            /\ \A ids \in SUBSET OperationIds :
                  LET r == claim_operation_refs(ids, operation_owners, local_used_ops[h])
                  IN  ClaimEffect(ids, r.claimed, local_used_ops[h], r.local_used_ids,
                                  operation_owners, r.owners, operations.operations)
            /\ \A ids \in SUBSET EndorsementIds :
                  LET r == claim_endorsement_refs(ids, endorsement_owners,
                                                  local_used_endorsements[h])
                  IN  ClaimEffect(ids, r.claimed, local_used_endorsements[h],
                                  r.local_used_ids, endorsement_owners, r.owners,
                                  endorsements.endorsements)

\* C6 witness: a second live holder has claimed a stored block (count 2,
\* both hold it) while some operation id is stored nowhere and held by nobody:
\* a claim of it returns nothing.
C6_Witness ==
    \E h1 \in live, h2 \in live :
        /\ h1 # h2
        /\ \E id \in local_used_blocks[h1] \cap local_used_blocks[h2] :
              Count(block_owners, id) = 2
        /\ \E id \in OperationIds :
              /\ id \notin DOMAIN operations.operations
              /\ id \notin DOMAIN operation_owners

\* What drop_refs(ids) by a holder may do to the ids of a kind.
DropEffect(all, ids, held_before, held_after, owners0, owners1, primary0, primary1, idx0, idx1) ==
    /\ held_after = held_before \ ids
    /\ \A id \in all :
          IF id \in ids \cap held_before
          THEN Count(owners1, id) = Count(owners0, id) - 1
          ELSE /\ Count(owners1, id) = Count(owners0, id)
               /\ (id \in DOMAIN primary1) = (id \in DOMAIN primary0)
               /\ id \in DOMAIN primary0 => primary1[id] = primary0[id]
               /\ ListedUnder(idx1, id) = ListedUnder(idx0, id)

\* C7: in every reachable state, for every live holder and every set of ids,
\* drop_refs(ids) by the holder takes exactly one owner from every listed id
\* the holder holds and removes it from the holder's local set; every other
\* id, those held by other holders included, keeps its count, its payload and
\* its index entries.
C7_DropRefsFrame ==
    ~panicked =>
        \A h \in live :
            /\ \A ids \in SUBSET BlockIds :
                  LET r == drop_block_refs(ids, blocks, block_owners, local_used_blocks[h])
                  IN  DropEffect(BlockIds, ids, local_used_blocks[h], r.local_used_ids,
                                 block_owners, r.owners, blocks.blocks, r.store.blocks,
                                 blocks.index_by_creator, r.store.index_by_creator)
            /\ \A ids \in SUBSET OperationIds :
                  LET r == drop_operation_refs(ids, operations, operation_owners,
                                               local_used_ops[h])
                  IN  DropEffect(OperationIds, ids, local_used_ops[h], r.local_used_ids,
                                 operation_owners, r.owners, operations.operations,
                                 r.store.operations, operations.index_by_creator,
                                 r.store.index_by_creator)
            /\ \A ids \in SUBSET EndorsementIds :
                  LET r == drop_endorsement_refs(ids, endorsements, endorsement_owners,
                                                 local_used_endorsements[h])
                  IN  DropEffect(EndorsementIds, ids, local_used_endorsements[h],
                                 r.local_used_ids, endorsement_owners, r.owners,
                                 endorsements.endorsements, r.store.endorsements,
                                 endorsements.index_by_creator, r.store.index_by_creator)

\* C7 witness: an operation is held by one live holder only (count 1) and a
\* second live holder, which holds a block, does not hold it: a drop of the
\* operation by the second holder is a drop of an id it does not hold.
C7_Witness ==
    \E h1 \in live, h2 \in live :
        /\ h1 # h2
        /\ local_used_blocks[h2] # {}
        /\ \E id \in local_used_ops[h1] \ local_used_ops[h2] :
              Count(operation_owners, id) = 1

\* What a clone of a holder with local set had may do to a kind.
CloneEffect(all, had, res_after, owners0, owners1) ==
    /\ res_after = had
    /\ \A id \in all :
          Count(owners1, id) = Count(owners0, id) + (IF id \in had THEN 1 ELSE 0)

\* What the destruction of a holder with local set had may do to a kind: a
\* had id loses one owner; it stays stored, payload and index entry, while
\* another holder is left, and is purged with its index entry when the holder
\* was the last; an id the holder did not hold is untouched.
DestroyEffect(all, had, owners0, owners1, primary0, primary1, idx0, idx1) ==
    \A id \in all :
        /\ Count(owners1, id) = Count(owners0, id) - (IF id \in had THEN 1 ELSE 0)
        /\ IF id \in had /\ Count(owners0, id) = 1
           THEN /\ id \notin DOMAIN primary1
                /\ ListedUnder(idx1, id) = {}
           ELSE /\ (id \in DOMAIN primary1) = (id \in DOMAIN primary0)
                /\ id \in DOMAIN primary0 => primary1[id] = primary0[id]
                /\ ListedUnder(idx1, id) = ListedUnder(idx0, id)

\* C8: a clone holds exactly what its source holds and adds exactly one owner
\* to every id of the source's local sets, and to no other; the destruction
\* of a holder takes one owner from each id it held, leaves the payload
\* stored while another holder is left and purges payload and creator-index
\* entry only when it was the last holder.
C8_CloneThenDrop ==
    [][/\ \A h \in Holders, res \in Holders :
             Clone(h, res) =>
                 /\ CloneEffect(BlockIds, local_used_blocks[h], local_used_blocks'[res],
                                block_owners, block_owners')
                 /\ CloneEffect(OperationIds, local_used_ops[h], local_used_ops'[res],
                                operation_owners, operation_owners')
                 /\ CloneEffect(EndorsementIds, local_used_endorsements[h],
                                local_used_endorsements'[res],
                                endorsement_owners, endorsement_owners')
                 /\ local_used_blocks'[h] = local_used_blocks[h]
                 /\ local_used_ops'[h] = local_used_ops[h]
                 /\ local_used_endorsements'[h] = local_used_endorsements[h]
                 /\ <<blocks, operations, endorsements>>' =
                        <<blocks, operations, endorsements>>
       /\ \A h \in Holders :
             DropStorage(h) =>
                 /\ DestroyEffect(BlockIds, local_used_blocks[h],
                                  block_owners, block_owners', blocks.blocks, blocks'.blocks,
                                  blocks.index_by_creator, blocks'.index_by_creator)
                 /\ DestroyEffect(OperationIds, local_used_ops[h],
                                  operation_owners, operation_owners',
                                  operations.operations, operations'.operations,
                                  operations.index_by_creator, operations'.index_by_creator)
                 /\ DestroyEffect(EndorsementIds, local_used_endorsements[h],
                                  endorsement_owners, endorsement_owners',
                                  endorsements.endorsements, endorsements'.endorsements,
                                  endorsements.index_by_creator,
                                  endorsements'.index_by_creator)
      ]_vars

\* C8 witness: a holder and its clone: two live holders with the same local
\* sets, a block and an endorsement among them, every held id counted twice.
C8_Witness ==
    \E h1 \in live, h2 \in live :
        /\ h1 # h2
        /\ local_used_blocks[h1] = local_used_blocks[h2]
        /\ local_used_ops[h1] = local_used_ops[h2]
        /\ local_used_endorsements[h1] = local_used_endorsements[h2]
        /\ local_used_blocks[h1] # {}
        /\ local_used_endorsements[h1] # {}
        /\ \A id \in local_used_blocks[h1] : Count(block_owners, id) = 2
        /\ \A id \in local_used_endorsements[h1] : Count(endorsement_owners, id) = 2

\* C9: split_off on a holder that holds every listed id leaves the owner
\* counts and the primary maps unchanged; the source is left with its former
\* sets minus the listed ids and the new holder holds exactly the listed ids.
C9_SplitOffMoves ==
    [][\A h \in Holders, res \in Holders :
          \A bs \in SUBSET local_used_blocks[h], os \in SUBSET local_used_ops[h],
             es \in SUBSET local_used_endorsements[h] :
             SplitOff(h, res, bs, os, es) =>
                 /\ <<block_owners, operation_owners, endorsement_owners>>' =
                        <<block_owners, operation_owners, endorsement_owners>>
                 /\ <<blocks, operations, endorsements>>' =
                        <<blocks, operations, endorsements>>
                 /\ local_used_blocks'[h] = local_used_blocks[h] \ bs
                 /\ local_used_ops'[h] = local_used_ops[h] \ os
                 /\ local_used_endorsements'[h] = local_used_endorsements[h] \ es
                 /\ local_used_blocks'[res] = bs
                 /\ local_used_ops'[res] = os
                 /\ local_used_endorsements'[res] = es
      ]_vars

\* C9 witness: a holder and a holder split off it: two live holders with
\* disjoint local sets, one holding a block and the other an operation and an
\* endorsement, each id with one owner.
C9_Witness ==
    \E h1 \in live, h2 \in live :
        /\ h1 # h2
        /\ local_used_blocks[h1] # {}
        /\ local_used_blocks[h2] = {}
        /\ local_used_ops[h1] = {}
        /\ local_used_ops[h2] # {}
        /\ local_used_endorsements[h1] = {}
        /\ local_used_endorsements[h2] # {}
        /\ \A id \in DOMAIN block_owners : block_owners[id] = 1
        /\ \A id \in DOMAIN operation_owners : operation_owners[id] = 1
        /\ \A id \in DOMAIN endorsement_owners : endorsement_owners[id] = 1

\* What self.extend(other) may do to a kind.
ExtendEffect(all, self_before, other_before, self_after, other_after, owners0, owners1, primary0, primary1) ==
    /\ self_after = self_before \cup other_before
    /\ other_after = {}
    /\ primary1 = primary0
    /\ \A id \in all :
          Count(owners1, id) =
              Count(owners0, id) - (IF id \in self_before \cap other_before THEN 1 ELSE 0)

\* C10: after self.extend(other), other being destroyed, self holds the union
\* of what the two held, every id both held has exactly one owner less, every
\* other count is unchanged, and no payload is purged.
C10_ExtendUnion ==
    [][\A h \in Holders, other \in Holders :
          Extend(h, other) =>
              /\ other \notin live'
              /\ ExtendEffect(BlockIds, local_used_blocks[h], local_used_blocks[other],
                              local_used_blocks'[h], local_used_blocks'[other],
                              block_owners, block_owners', blocks, blocks')
              /\ ExtendEffect(OperationIds, local_used_ops[h], local_used_ops[other],
                              local_used_ops'[h], local_used_ops'[other],
                              operation_owners, operation_owners', operations, operations')
              /\ ExtendEffect(EndorsementIds, local_used_endorsements[h],
                              local_used_endorsements[other],
                              local_used_endorsements'[h], local_used_endorsements'[other],
                              endorsement_owners, endorsement_owners',
                              endorsements, endorsements')
      ]_vars

\* C10 witness: two live holders that both hold a block (count 2), the second
\* holding an endorsement the first lacks: the extend of the first by the
\* second meets an id both hold and an id to move.
C10_Witness ==
    \E h1 \in live, h2 \in live :
        /\ h1 # h2
        /\ \E id \in local_used_blocks[h1] \cap local_used_blocks[h2] :
              Count(block_owners, id) = 2
        /\ local_used_endorsements[h2] \ local_used_endorsements[h1] # {}
        /\ local_used_ops[h1] \ local_used_ops[h2] # {}

\* Nothing is stored, counted or indexed in the store.
StoreEmpty(b, o, e, bo, oo, eo) ==
    /\ b = BlockIndexes_default
    /\ o = OperationIndexes_default
    /\ e = EndorsementIndexes_default
    /\ bo = EmptyMap
    /\ oo = EmptyMap
    /\ eo = EmptyMap

\* C11: a destroyed holder holds nothing; the destruction of any live holder
\* leaves its three local sets empty without panicking; and once no holder of
\* the store is left, the primary maps, the owner counts and the creator
\* indexes are all empty, the destruction of the last holder emptying them.
C11_DropLeavesNothing ==
    ~panicked =>
        /\ \A h \in Holders \ live :
              /\ local_used_blocks[h] = {}
              /\ local_used_ops[h] = {}
              /\ local_used_endorsements[h] = {}
        /\ live = {} => StoreEmpty(blocks, operations, endorsements, block_owners,
                                   operation_owners, endorsement_owners)
        /\ \A h \in live :
              LET d == Storage_drop(local_used_blocks[h], local_used_ops[h],
                                    local_used_endorsements[h])
              IN  /\ ~(d.b.panic \/ d.o.panic \/ d.e.panic)
                  /\ d.b.local_used_ids = {}
                  /\ d.o.local_used_ids = {}
                  /\ d.e.local_used_ids = {}
                  /\ live = {h} => StoreEmpty(d.b.store, d.o.store, d.e.store,
                                              d.b.owners, d.o.owners, d.e.owners)

\* C11 witness: the last live holder of the store holds a block, an operation
\* and an endorsement, all stored: its destruction is the one that must empty
\* the store.
C11_Witness ==
    \E h \in live :
        /\ live = {h}
        /\ local_used_blocks[h] \cap DOMAIN blocks.blocks # {}
        /\ local_used_ops[h] \cap DOMAIN operations.operations # {}
        /\ local_used_endorsements[h] \cap DOMAIN endorsements.endorsements # {}

\* C12: after any sequence of insert and remove on the endorsement index, an
\* id is listed in the creator index under an address if and only if the id
\* is in the primary map and the stored endorsement's creator is that address.
C12_CreatorIndexExact ==
    \A id \in IndexIds, a \in Addrs :
        (a \in DOMAIN endorsements.index_by_creator
            /\ id \in endorsements.index_by_creator[a])
        <=> (id \in DOMAIN endorsements.endorsements
                /\ endorsements.endorsements[id].creator = a)

\* C12 witness: the index holds two endorsements of one creator and one of
\* another while some id is absent: inserts under both creators have acted,
\* and a remove or a refused second insert can follow.
C12_Witness ==
    \E a \in Addrs, b \in Addrs :
        /\ a # b
        /\ a \in DOMAIN endorsements.index_by_creator
        /\ b \in DOMAIN endorsements.index_by_creator
        /\ Cardinality(endorsements.index_by_creator[a]) = 2
        /\ Cardinality(endorsements.index_by_creator[b]) = 1
        /\ Cardinality(DOMAIN endorsements.endorsements) = 3

\* C13: at every tick of the worker loop, whatever the clock returned and
\* however commands came in between, the slot passed to slot_tick is after
\* the previous slot and after the slot of the tick before: the ticked slots
\* are strictly increasing and no slot is ticked twice.
C13_SlotTicksIncrease ==
    [][\A now \in ClockReadings, tick_ok \in BOOLEAN :
          RecvTimeout(now, tick_ok) =>
              /\ shared_state'.slot_tick = Some(next_slot)
              /\ previous_slot # None => Slot_lt(previous_slot[1], next_slot)
              /\ shared_state.slot_tick # None =>
                     Slot_lt(shared_state.slot_tick[1], next_slot)
      ]_vars

\* C13 witness: the worker has ticked slot (1,0) and waits for its successor
\* (1,1), the clock having read no later slot, with a command applied in
\* between.
C13_Witness ==
    /\ worker_pc = "running"
    /\ shared_state.slot_tick = Some(Slot(1, 0))
    /\ previous_slot = Some(Slot(1, 0))
    /\ next_slot = Slot(1, 1)
    /\ shared_state.applied # << >>

\* The distance of a slot's timestamp to a timestamp.
SlotDistance(slot, timestamp) ==
    LET ts == get_block_slot_timestamp(thread_count, t0, genesis_timestamp, slot)
    IN  IF ts >= timestamp THEN ts - timestamp ELSE timestamp - ts

\* No slot is nearer to the timestamp.
IsClosestSlot(slot, timestamp) ==
    \A p \in 0..(MaxInputPeriod + 1), t \in 0..(thread_count - 1) :
        SlotDistance(slot, timestamp) <= SlotDistance(Slot(p, t), timestamp)

\* The least slot after the given one.
IsSuccessor(slot, of) ==
    /\ Slot_lt(of, slot)
    /\ \A p \in 0..(MaxInputPeriod + 1), t \in 0..(thread_count - 1) :
          ~(Slot_lt(of, Slot(p, t)) /\ Slot_lt(Slot(p, t), slot))

\* C14: get_next_slot(previous) under a clock reading returns a slot closest
\* to that time when one is after previous or there is no previous (slots may
\* be skipped), and exactly the successor of previous when the slot it finds
\* closest is previous or earlier; with previous (10,0) and the clock rewound
\* to period 5 the result is (10,1).
C14_NextSlot ==
    worker_pc = "computed" =>
        /\ \/ /\ IsClosestSlot(next_slot, clock_now[1])
              /\ previous_slot # None => Slot_lt(previous_slot[1], next_slot)
           \/ /\ previous_slot # None
              /\ IsSuccessor(next_slot, previous_slot[1])
              /\ \E slot \in InputSlots :
                    /\ IsClosestSlot(slot, clock_now[1])
                    /\ Slot_le(slot, previous_slot[1])
        /\ (previous_slot = Some(Slot(10, 0)) /\ clock_now = Some(genesis_timestamp + 5 * t0))
               => next_slot = Slot(10, 1)

\* C14 witness: the call on previous (10,0) with the clock at period 5 has
\* returned.
C14_Witness ==
    /\ worker_pc = "computed"
    /\ previous_slot = Some(Slot(10, 0))
    /\ clock_now = Some(genesis_timestamp + 5 * t0)

\* The commands of the applied records, in the order of application.
AppliedCommands == [i \in DOMAIN shared_state.applied |-> shared_state.applied[i].command]

\* C15: whatever ticks come in between, the commands applied to the shared
\* state followed by the commands still queued are the commands sent, in send
\* order: each command is applied once, in the order of the sends.
C15_CommandsInSendOrder ==
    /\ AppliedCommands \o command_receiver = sent
    /\ \A i \in DOMAIN sent, j \in DOMAIN sent : sent[i] = sent[j] => i = j

\* C15 witness: two commands were sent and applied, and a slot was ticked
\* before the worker returned.
C15_Witness ==
    /\ Len(sent) >= 2
    /\ Len(shared_state.applied) = Len(sent)
    /\ shared_state.slot_tick # None
    /\ worker_pc = "returned"

\* C16: once every sender is dropped, a running worker ticks no more slot,
\* does not panic and takes the queued commands one at a time; when run() has
\* returned every command sent has been applied and the channel is empty, and
\* nothing happens after the return.
C16_DisconnectDrains ==
    [][/\ (~senders_alive /\ worker_pc = "running") =>
              /\ worker_pc' \in {"running", "returned"}
              /\ shared_state'.slot_tick = shared_state.slot_tick
              /\ <<previous_slot, next_slot, next_instant>>' =
                     <<previous_slot, next_slot, next_instant>>
              /\ worker_pc' = "returned" =>
                     /\ command_receiver = << >>
                     /\ AppliedCommands = sent
              /\ worker_pc' = "running" =>
                     /\ command_receiver # << >>
                     /\ command_receiver' = Tail(command_receiver)
                     /\ Len(shared_state'.applied) = Len(shared_state.applied) + 1
       /\ worker_pc = "returned" => UNCHANGED workerVars
      ]_vars

\* C16 witness: run() has returned after the senders were dropped with
\* commands sent, a slot having been ticked before.
C16_Witness ==
    /\ worker_pc = "returned"
    /\ ~senders_alive
    /\ Len(sent) = MaxCommands
    /\ previous_slot # None

\* C17: every command applied successfully was followed by exactly one block
\* DB changed notification, and every command whose application failed by
\* none, whichever of the three commands it is.
C17_NotifyOnSuccess ==
    \A i \in DOMAIN shared_state.applied :
        shared_state.applied[i].notifications =
            (IF shared_state.applied[i].ok THEN 1 ELSE 0)

\* C18: a tick during which the host clock cannot be read leaves the worker
\* running: it neither panics nor returns.
C18_ClockErrorSkipsTick ==
    [][\A tick_ok \in BOOLEAN : RecvTimeout(None, tick_ok) => worker_pc' = "running"]_vars

\* C19: for every registry-changes value with at most max_pool_changes slots,
\* whatever its effective_total_gas, Set or Keep, the deserialization of its
\* serialization succeeds, leaves no byte and returns the value.
C19_RegistryRoundTrip ==
    (codec_pc = "done" /\ Cardinality(DOMAIN changes.slots_change) <= max_pool_changes) =>
        /\ deserialized.ok
        /\ deserialized.rest = << >>
        /\ deserialized.value = changes

\* C20: a length-prefixed decoder rejects, before any element is decoded, an
\* input that declares more elements than its cap, and does not reject at the
\* length an input that declares exactly the cap: max_pool_changes slots for
\* the registry changes (rejected at the length), endorsement_count
\* endorsements for the header (rejected with no endorsement decoded).
C20_LengthCapEnforced ==
    /\ codec_pc = "done" =>
           LET declared == Cardinality(DOMAIN changes.slots_change)
           IN  /\ declared > max_pool_changes =>
                      /\ ~deserialized.ok /\ ~deserialized.panic
                      /\ deserialized.context = "Failed length deserialization"
               /\ declared = max_pool_changes =>
                      deserialized.context # "Failed length deserialization"
    /\ codec_pc \in {"done_header", "reserialized_header"} =>
           LET declared == Len(header.endorsements)
           IN  /\ declared > endorsement_count =>
                      /\ ~deserialized.ok /\ ~deserialized.panic
                      /\ deserialized.context # "Failed endorsement deserialization"
               /\ declared = endorsement_count =>
                      /\ ~deserialized.panic
                      /\ deserialized.context # "Failed length deserialization"

\* C21: whenever the registry-changes decoder accepts a byte string and
\* leaves no byte, serializing the decoded value gives the byte string back,
\* also when the string lists slots out of order or a slot twice.
C21_ReserializeGivesInput ==
    (codec_pc = "reserialized" /\ deserialized.rest = << >>) =>
        reserialized = buffer

\* C22: a header with no parents or thread_count parents, at most
\* endorsement_count endorsements and any two versions is decoded from its
\* serialization with no byte left, and the decoded header serializes to the
\* same bytes.
C22_HeaderRoundTrip ==
    (/\ codec_pc \in {"done_header", "reserialized_header"}
     /\ Len(header.parents) \in {0, thread_count}
     /\ Len(header.endorsements) <= endorsement_count) =>
        /\ deserialized.ok
        /\ deserialized.rest = << >>
        /\ codec_pc = "reserialized_header" => reserialized = buffer

\* The fields of a header up to the parent flag, each within the range of its
\* decoder, then parent flag 0 and the merkle root.
NoParentsHeaderStart ==
    {VarIntSerializer(cur) \o VarIntSerializer(next) \o SlotSerializer(slot)
         \o <<0>> \o HashOf(3) :
       cur \in 0..endorsement_count, next \in 0..endorsement_count, slot \in HeaderSlots}

C24_DecodersNeverPanic ==
    codec_pc \in {"done", "reserialized", "done_header", "reserialized_header"} =>
        /\ ~deserialized.panic
        /\ (codec_pc = "done_header" /\ buffer \in NoParentsHeaderStart) =>
               ~deserialized.ok

\* C25: a header returned by a successful decode has thread_count parents,
\* or no parents and then period 0.
C25_ParentsEmptyOnlyAtGenesis ==
    (codec_pc \in {"done_header", "reserialized_header"} /\ deserialized.ok) =>
        \/ Len(deserialized.value.parents) = thread_count
        \/ /\ deserialized.value.parents = << >>
           /\ deserialized.value.slot.period = 0

\* The value a column family holds under a key, when it is compared.
SameEntries(cf1, cf2) ==
    /\ DOMAIN cf1 = DOMAIN cf2
    /\ \A k \in DOMAIN cf1 : k # STATE_HASH_KEY => cf1[k] = cf2[k]

\* C26: assert_eq_final_state passes only when STATE_CF and METADATA_CF each
\* hold, in the two states, as many entries, under the same keys in the same
\* order, with the same values but for the value under STATE_HASH_KEY.
C26_PassOnlyIfSameEntries ==
    assert_outcome = "passed" =>
        /\ iterator_cf(v1.state_cf) = iterator_cf(v2.state_cf)
        /\ Len(iterator_cf(v1.metadata_cf)) = Len(iterator_cf(v2.metadata_cf))
        /\ SameEntries(v1.metadata_cf, v2.metadata_cf)

\* C27: a call of a mock method whose send fails because the Receiver was
\* dropped prints the error and does not panic at the send.
C27_SendFailureSwallowed ==
    \A i \in DOMAIN mock_calls :
        mock_calls[i].send = "failed" =>
            /\ mock_calls[i].printed
            /\ mock_calls[i].outcome # "panicked at send"


\* C28: a pass of the loop in which manage_command returns an Err logs the
\* error and leaves the worker running with the rest of the queue and the
\* next slot untouched; in the pass after it the worker applies the oldest
\* queued command, or ticks the next slot when none is queued.
C28_CommandFailureGoesOn ==
    [][/\ \A method_ok \in BOOLEAN, notify_ok \in BOOLEAN :
              (/\ RecvCommand(method_ok, notify_ok)
               /\ ~manage_command(guards, shared_state, Head(command_receiver),
                                  method_ok, notify_ok).result) =>
                  /\ warning' = Some("Error in graph")
                  /\ worker_pc' = "running"
                  /\ command_receiver' = Tail(command_receiver)
                  /\ <<previous_slot, next_slot, next_instant>>' =
                         <<previous_slot, next_slot, next_instant>>
       /\ warning = Some("Error in graph") =>
              /\ worker_pc = "running"
              /\ shared_state' # shared_state =>
                     IF command_receiver # << >>
                     THEN /\ Len(shared_state'.applied) = Len(shared_state.applied) + 1
                          /\ shared_state'.applied[Len(shared_state'.applied)].command =
                                 Head(command_receiver)
                     ELSE shared_state'.slot_tick = Some(next_slot)
      ]_vars

\* C28 witness: the first command failed, a second command was applied and a
\* slot was ticked, and the worker is still running.
C28_Witness ==
    /\ worker_pc = "running"
    /\ Len(shared_state.applied) = 2
    /\ ~shared_state.applied[1].ok
    /\ shared_state.applied[2].ok
    /\ shared_state.slot_tick # None
    /\ warning = None

\* C29: a tick of slot s in which slot_tick returns an Err logs a warning and
\* leaves the worker running, with previous_slot set to s and the next slot
\* computed from s, after s.
C29_TickErrorGoesOn ==
    [][\A now \in ClockReadings :
          RecvTimeout(now, FALSE) =>
              /\ warning' = Some("Error while processing block tick")
              /\ worker_pc' = "running"
              /\ previous_slot' = Some(next_slot)
              /\ next_slot' = get_next_slot(Some(next_slot), now).next_slot
              /\ Slot_lt(next_slot, next_slot')
      ]_vars

\* C30: whenever the worker is at the channel receive it holds no guard of
\* the shared state, neither read nor write.
C30_NoGuardAtReceive ==
    worker_pc = "running" => guards = {}

\* C30 witness: the worker is back at the receive after a command was managed
\* and a slot was ticked, each under the write guard.
C30_Witness ==
    /\ worker_pc = "running"
    /\ shared_state.applied # << >>
    /\ shared_state.slot_tick # None
    /\ guards = {}

\* C31: on a tick "Started cycle" is logged, once, exactly when there is no
\* previous slot or the cycle of the ticked slot is above the cycle of the
\* previous slot; "Massa network has started" is logged only on a tick without
\* previous slot, and at most once in a run; no other pass of the loop logs
\* either message.
C31_CycleMessages ==
    [][/\ \/ /\ Logged(info', "Started cycle") =
                    (IF \/ previous_slot = None
                        \/ Slot_get_cycle(next_slot, periods_per_cycle) >
                               Slot_get_cycle(previous_slot[1], periods_per_cycle)
                     THEN 1 ELSE 0)
             /\ (Logged(info', "Massa network has started") > 0 =>
                     previous_slot = None)
          \/ previous_slot' # Some(next_slot)
          \/ \A now \in ClockReadings, tick_ok \in BOOLEAN :
                 ~RecvTimeout(now, tick_ok)
       /\ (shared_state'.slot_tick = shared_state.slot_tick =>
               info' \in {info, << >>})
       /\ network_started' <= 1
      ]_vars

\* C31 witness: the worker, started once, has just ticked a slot of cycle 1
\* after a slot of cycle 0 and logged the start of the cycle.
C31_Witness ==
    /\ worker_pc = "running"
    /\ network_started = 1
    /\ info = <<"Started cycle">>
    /\ previous_slot # None
    /\ Slot_get_cycle(previous_slot[1], periods_per_cycle) = 1

\* C39: a pass of the loop that manages a command, whatever its result,
\* leaves previous_slot, next_slot and next_instant as they were, and the
\* command is managed with previous_slot equal to the last slot ticked, none
\* before the first tick; the tick after it is of the slot that was pending.
C39_CommandKeepsSlots ==
    [][/\ \A method_ok \in BOOLEAN, notify_ok \in BOOLEAN :
              RecvCommand(method_ok, notify_ok) =>
                  /\ <<previous_slot, next_slot, next_instant>>' =
                         <<previous_slot, next_slot, next_instant>>
                  /\ previous_slot = shared_state.slot_tick
       /\ shared_state'.slot_tick # shared_state.slot_tick =>
              /\ shared_state'.slot_tick = Some(next_slot)
              /\ previous_slot = shared_state.slot_tick
      ]_vars

\* C39 witness: a command failed in the last pass, after a slot was ticked,
\* and the worker waits for a later slot with that slot as previous slot.
C39_Witness ==
    /\ worker_pc = "running"
    /\ warning = Some("Error in graph")
    /\ previous_slot # None
    /\ previous_slot = shared_state.slot_tick
    /\ Slot_lt(previous_slot[1], next_slot)

\* The sequences that list every element of S once.
Orderings(S) ==
    {f \in [1..Cardinality(S) -> S] : \A i, j \in DOMAIN f : i # j => f[i] # f[j]}

\* C32: whatever the writes that built the registry changes and their order,
\* the bytes of its serialization are the number of slots, the slot records
\* in strictly increasing slot order (period first, then thread) and the
\* total gas, and listing the slots in any other order gives other bytes.
C32_SlotsWrittenInOrder ==
    (codec_pc = "deserialize" /\ write_count > 0) =>
        \A order \in Orderings(DOMAIN changes.slots_change) :
            (buffer = VarIntSerializer(Len(order))
                      \o SlotsChangeSerializer(changes.slots_change, order)
                      \o (IF changes.effective_total_gas.tag = "Set"
                          THEN VarIntSerializer(changes.effective_total_gas.value)
                          ELSE << >>))
            <=> (\A i, j \in DOMAIN order : i < j => Slot_lt(order[i], order[j]))

\* C32 witness: changes with the records of two slots, built by two writes,
\* was serialized.
C32_Witness ==
    /\ codec_pc = "deserialize"
    /\ write_count = 2
    /\ Cardinality(DOMAIN changes.slots_change) = 2

\* C33: after any writes, get_call(slot, id) is the call of the latest write
\* to (slot, id) if that write was a set_call, of a call whose target slot is
\* slot, and none if it was a delete_call or if (slot, id) was never written.
C33_GetCallLatestWrite ==
    write_count > 0 =>
        \A target_slot \in RegistrySlots, id \in CallIds :
            get_call(changes, target_slot, id) =
                (IF /\ <<target_slot, id>> \in DOMAIN last_write.calls
                    /\ last_write.calls[<<target_slot, id>>].tag = "Set"
                    /\ DeferredCall_target_slot(last_write.calls[<<target_slot, id>>].value)
                           = target_slot
                 THEN Some(last_write.calls[<<target_slot, id>>].value)
                 ELSE None)

\* C33 witness: after two writes the latest write to a call of one slot is
\* a delete_call and the latest write to a call of another slot a set_call.
C33_Witness ==
    /\ write_count = 2
    /\ \E k1 \in DOMAIN last_write.calls, k2 \in DOMAIN last_write.calls :
          /\ k1[1] # k2[1]
          /\ last_write.calls[k1] = Delete
          /\ last_write.calls[k2].tag = "Set"
          /\ get_call(changes, k1[1], k1[2]) = None
          /\ get_call(changes, k2[1], k2[2]) # None

\* C34: get_effective_total_gas returns none exactly when
\* set_effective_total_gas was never called and the value of its latest call
\* otherwise, and no step puts effective_total_gas back to Keep.
C34_TotalGasLatestWrite ==
    [][/\ GetEffectiveTotalGas => got'[1].result = last_write.total_gas
       /\ get_effective_total_gas(changes') = last_write'.total_gas
       /\ changes.effective_total_gas.tag = "Set" =>
              changes'.effective_total_gas.tag = "Set"
      ]_vars

\* C34 witness: the total gas was set to 0 after other writes, and the getter
\* returned 0.
C34_Witness ==
    /\ write_count = 2
    /\ last_write.total_gas = Some(0)
    /\ got = Some([method |-> "get_effective_total_gas", target_slot |-> Slot(0, 0),
                   id |-> 0, result |-> Some(0)])

\* What a write aimed at a slot may change: the record of the slot, which
\* exists afterwards.
SlotWriteFrame(target_slot) ==
    /\ DOMAIN changes'.slots_change = DOMAIN changes.slots_change \cup {target_slot}
    /\ \A slot \in DOMAIN changes.slots_change \ {target_slot} :
          changes'.slots_change[slot] = changes.slots_change[slot]
    /\ changes'.effective_total_gas = changes.effective_total_gas

\* C38: set_call, delete_call, set_effective_slot_gas and set_slot_base_fee
\* leave the registry changes with a record for their slot, the records of
\* the other slots and effective_total_gas as they were;
\* set_effective_total_gas leaves every slot record as it was; a getter
\* leaves the registry changes as it was.
C38_WriteFrame ==
    [][/\ \A id \in CallIds, call \in RegistryCalls :
              SetCall(id, call) => SlotWriteFrame(DeferredCall_target_slot(call))
       /\ \A target_slot \in RegistrySlots :
              /\ \A id \in CallIds :
                     DeleteCall(target_slot, id) => SlotWriteFrame(target_slot)
              /\ SetEffectiveSlotGas(target_slot, 200) => SlotWriteFrame(target_slot)
              /\ SetSlotBaseFee(target_slot, 1) => SlotWriteFrame(target_slot)
       /\ \A gas \in {0, 300} :
              SetEffectiveTotalGas(gas) => changes'.slots_change = changes.slots_change
       /\ got' # got => changes' = changes
      ]_vars

\* C38 witness: a getter was called on a slot without record after writes
\* that created the records of two other slots, and there are still two.
C38_Witness ==
    /\ write_count = 2
    /\ Cardinality(DOMAIN changes.slots_change) = 2
    /\ got # None
    /\ got[1].target_slot \notin DOMAIN changes.slots_change
    /\ got[1].result = None

\* C35: in every header a decode returns, there are at most endorsement_count
\* endorsements and each has the slot of the header and, as endorsed block,
\* the parent of the header in the thread of the slot.
C35_EndorsementsFollowHeader ==
    (codec_pc \in {"done_header", "reserialized_header"} /\ deserialized.ok) =>
        /\ Len(deserialized.value.endorsements) <= endorsement_count
        /\ \A i \in DOMAIN deserialized.value.endorsements :
              /\ deserialized.value.endorsements[i].content.slot = deserialized.value.slot
              /\ deserialized.value.endorsements[i].content.endorsed_block =
                     deserialized.value.parents[deserialized.value.slot.thread + 1]

\* C35 witness: a header of the last thread was decoded from its bytes with
\* endorsement_count endorsements.
C35_Witness ==
    /\ codec_pc = "done_header"
    /\ deserialized.ok
    /\ deserialized.value.slot.thread = thread_count - 1
    /\ Len(deserialized.value.endorsements) = endorsement_count

\* The messages the calls up to the i-th have sent, in call order, each with
\* the number of its call.
RECURSIVE MessagesSent(_, _)
MessagesSent(calls, i) ==
    IF i = 0 THEN << >>
    ELSE MessagesSent(calls, i - 1)
         \o (IF calls[i].send = "sent"
             THEN <<[method |-> calls[i].method, call |-> i]>> ELSE << >>)

\* C36: a call of a response-carrying method that returned has sent its
\* message, a value was sent on the response sender of that message, and the
\* call returned that value; while the Receiver is held every such call has
\* put exactly one message on the channel, and the messages are on the
\* channel in the order of the calls.
C36_OneMessageOneResponse ==
    /\ \A i \in DOMAIN mock_calls :
          (mock_calls[i].method \in MockResponseMethods
               /\ mock_calls[i].outcome = "returned") =>
              /\ mock_calls[i].send = "sent"
              /\ mock_calls[i].response # None
              /\ mock_calls[i].value = mock_calls[i].response
    /\ mock_receiver =>
          /\ mock_messages = MessagesSent(mock_calls, Len(mock_calls))
          /\ \A i \in DOMAIN mock_calls :
                mock_calls[i].method \in MockResponseMethods =>
                    Cardinality({k \in DOMAIN mock_messages :
                                    mock_messages[k].call = i}) = 1

\* C36 witness: two calls of response-carrying methods returned the two
\* different values they were answered, their messages on the channel.
C36_Witness ==
    /\ mock_receiver
    /\ Len(mock_calls) = 2
    /\ Len(mock_messages) = 2
    /\ mock_calls[1].method = "unexecuted_ops_among"
    /\ mock_calls[2].method = "execute_readonly_request"
    /\ mock_calls[1].value = Some(1)
    /\ mock_calls[2].value = Some(0)

\* C37: after any insert and remove on the endorsement index no creator maps
\* to an empty set; the remove of the last id of a creator deletes the key of
\* the creator, and the remove of an id that is not stored returns None and
\* leaves the index as it was.
C37_NoEmptyCreatorSet ==
    [][/\ \A a \in DOMAIN endorsements'.index_by_creator :
              endorsements'.index_by_creator[a] # {}
       /\ \A endorsement_id \in IndexIds :
              IndexRemove(endorsement_id) =>
                  IF endorsement_id \in DOMAIN endorsements.endorsements
                  THEN LET a == endorsements.endorsements[endorsement_id].creator
                       IN  /\ EndorsementIndexes_remove_returned(endorsements, endorsement_id)
                                  = <<endorsements.endorsements[endorsement_id]>>
                           /\ endorsements.index_by_creator[a] = {endorsement_id} =>
                                  a \notin DOMAIN endorsements'.index_by_creator
                  ELSE /\ EndorsementIndexes_remove_returned(endorsements, endorsement_id)
                              = << >>
                       /\ endorsements' = endorsements
      ]_vars

\* C37 witness: the index holds endorsements of one creator only, and not
\* every id: the other creator has no key.
C37_Witness ==
    /\ Cardinality(DOMAIN endorsements.index_by_creator) = 1
    /\ Cardinality(DOMAIN endorsements.endorsements) = 2
    /\ \A a \in DOMAIN endorsements.index_by_creator :
          endorsements.index_by_creator[a] = DOMAIN endorsements.endorsements

====
